---- MODULE Spec2Model ----
(***************************************************************************)
(* A model of the ciphertext arithmetic and key material layer of          *)
(* phantom-zone: src/src/rgsw.rs (RLWE / RGSW encryption, key switching    *)
(* keys, external product, internal product, galois_auto) and              *)
(* src/src/bool/keys.rs (seeded -> evaluation domain expansion and         *)
(* multi-party public key aggregation).                                    *)
(*                                                                         *)
(* Polynomials are rows: functions 0..RingSize-1 -> 0..Q-1. Matrices are   *)
(* functions 0..rows-1 -> row. The ring is Z_Q[X]/(X^RingSize + 1) with a  *)
(* small NTT friendly prime Q; all arithmetic is carried out as the code   *)
(* carries it out (forward NTT, element-wise products, backward NTT).      *)
(***************************************************************************)
EXTENDS Integers, Sequences, FiniteSets, TLC

\* ------------------------------------------------------------ parameters

\* ring_size: the degree of X^N + 1 (a power of two)
RingSize == 4
\* q: the ciphertext modulus, a prime with 2 * RingSize | Q - 1
Q == 41
\* p: the plaintext modulus of the tests
P == 4
\* log2 of the decomposition base, and the base
LogB == 3
\* number of gadget digits d (LogB * D covers the bits of Q: nothing is dropped)
D == 2
\* largest absolute value of an error coefficient of the wide sampler the
\* round trips also run with (up to half the scaling factor Q / P)
MaxErr == 5
\* largest absolute value of an error coefficient of the default sampler
ErrWidth == 1
\* seeds 0..MaxSeed are the seeds handed to the seeded CSPRNGs
MaxSeed == 1
\* seeds 0..MaxRngSeed stand for the states of the caller's unseeded RNG
MaxRngSeed == 1
\* the largest magnitude of a Galois element handed to generate_auto_map
MaxK == 17
\* the most users of a non-interactive server key
MaxUsers == 2

Null == "null"
Idx == 0..(RingSize - 1)
Base == 2 ^ LogB

\* ------------------------------------------------------- backend (mod_op)

RECURSIVE PowMod(_, _)
PowMod(b, e) == IF e = 0 THEN 1 ELSE (b * PowMod(b, e - 1)) % Q

RECURSIVE SumUpTo(_, _)
\* f[0] + ... + f[k]
SumUpTo(f, k) == IF k < 0 THEN 0 ELSE f[k] + SumUpTo(f, k - 1)

Len0(m) == Cardinality(DOMAIN m)

\* a row or matrix written out in memory: its entries are computed once
Stored(f) == IF f = f THEN f ELSE f

ZeroRow == [i \in Idx |-> 0]
\* slice::fill: every entry of the row becomes value
fill(row, value) == [i \in DOMAIN row |-> value]
Zeros(rows) == [r \in 0..(rows - 1) |-> ZeroRow]

elwise_add(a, b) == Stored([i \in DOMAIN a |-> (a[i] + b[i]) % Q])
elwise_neg(a) == Stored([i \in DOMAIN a |-> (Q - (a[i] % Q)) % Q])
elwise_mul(a, b) == Stored([i \in DOMAIN a |-> (a[i] * b[i]) % Q])
elwise_scalar_mul(a, c) == Stored([i \in DOMAIN a |-> (a[i] * c) % Q])
elwise_fma(w, a, b) == Stored([i \in DOMAIN w |-> (w[i] + a[i] * b[i]) % Q])
neg(x) == (Q - (x % Q)) % Q

\* TryConvertFrom<[i32]>: a signed secret coefficient as a residue mod q
TryConvertFrom(sv) == Stored([i \in DOMAIN sv |-> (sv[i] + Q) % Q])

\* the centred representative of a residue, in (-Q/2, Q/2]
Centered(x) == IF 2 * (x % Q) > Q THEN (x % Q) - Q ELSE x % Q
Abs(x) == IF x < 0 THEN -x ELSE x

\* ---------------------------------------------------------- NTT (ntt_op)

\* a primitive 2N-th root of unity mod Q (3 has order 8 mod 41, and so has 3^5)
PsiRoot == PowMod(3, (Q - 1) \div (2 * RingSize))
PsiPow == [k \in 0..(2 * RingSize - 1) |-> PowMod(PsiRoot, k)]
NInv == PowMod(RingSize, Q - 2)

\* negacyclic forward transform: evaluation at the odd powers of psi
NttForward(r) ==
    Stored([i \in Idx |->
        SumUpTo([j \in Idx |-> r[j] * PsiPow[((2 * i + 1) * j) % (2 * RingSize)]],
                RingSize - 1) % Q])

NttBackward(r) ==
    Stored([j \in Idx |->
        (NInv * SumUpTo([i \in Idx |->
                    r[i] * PsiPow[(2 * RingSize - (((2 * i + 1) * j) % (2 * RingSize)))
                                   % (2 * RingSize)]],
                 RingSize - 1)) % Q])

\* the schoolbook negacyclic product (utils::negacyclic_mul), the reference
\* the tests compare against
NegacyclicMul(a, b) ==
    Stored([k \in Idx |->
        (SumUpTo([i \in Idx |->
            IF i <= k THEN a[i] * b[k - i]
                      ELSE Q * Q - a[i] * b[k + RingSize - i]], RingSize - 1)) % Q])

\* ------------------------------------------------------------ randomness

\* NewWithSeed: a CSPRNG is a deterministic stream, a function of its seed
\* and of how many values it has produced
NewWithSeed(seed) == [seed |-> seed, pos |-> 0, width |-> ErrWidth]

\* value number pos of the stream of a seed, reduced to 0..(modulus - 1)
PrngValue(seed, pos, modulus) ==
    LET x == (seed * 37 + pos * 101 + 11) % 1009
        y == (x * x * x + 7 * x + seed) % 1009
    IN ((y * y + 3 * y + pos) % 1013) % modulus

\* RandomUniformDist / RandomFillUniformInModulus ::random_fill of n values
UniformRow(rng, modulus, n) ==
    Stored([i \in 0..(n - 1) |-> PrngValue(rng.seed, rng.pos + i, modulus)])
Advance(rng, n) == [rng EXCEPT !.pos = @ + n]

\* RandomGaussianDist::random_fill: errors of absolute value up to the
\* sampler's width, stored as residues mod q
GaussianRow(rng, n) ==
    Stored([i \in 0..(n - 1) |->
        (PrngValue(rng.seed + 1, rng.pos + i + 2, 2 * rng.width + 1) - rng.width + Q) % Q])

\* ------------------------------------------------------------ encodings

\* the tests' encoding round(v * q / p) and decoding round(v * p / q) mod p
Encode(v) == (2 * v * Q + P) \div (2 * P)
Decode(v) == ((2 * v * P + Q) \div (2 * Q)) % P
EncodeRow(m) == [i \in DOMAIN m |-> Encode(m[i])]
DecodeRow(r) == [i \in DOMAIN r |-> Decode(r[i])]

\* ----------------------------------------------------------- RLWE scheme

\* a * s mod X^N + 1 as the code computes it: forward both, multiply, backward
NttMul(a, b) == NttBackward(elwise_mul(NttForward(a), NttForward(b)))

\* secret_key_encrypt_rlwe: b = e + m + a * s, a drawn from the seeded p_rng
secret_key_encrypt_rlwe(m, sv, p_rng, r) ==
    LET a == UniformRow(p_rng, Q, Len0(sv))
        sa == NttBackward(elwise_mul(NttForward(TryConvertFrom(sv)), NttForward(a)))
        e == GaussianRow(r, Len0(sv))
    IN [b_rlwe_out |-> elwise_add(elwise_add(e, m), sa),
        p_rng |-> Advance(p_rng, Len0(sv)),
        rng |-> Advance(r, Len0(sv)),
        a |-> a,
        e |-> e]

\* the variant that draws a from a generator that already produced a value
RlweCiphertextFromSeededLate(value) ==
    [data |-> [i \in 0..1 |->
                 IF i = 0 THEN UniformRow(Advance(NewWithSeed(value.seed), 1), value.modulus,
                                          Len0(value.data))
                          ELSE value.data],
     is_trivial |-> FALSE]

\* RlweCiphertext::from(&SeededRlweCiphertext): a is drawn again from the seed
RlweCiphertextFromSeeded(value) ==
    [data |-> [i \in 0..1 |->
                 IF i = 0 THEN UniformRow(NewWithSeed(value.seed), value.modulus,
                                          Len0(value.data))
                          ELSE value.data],
     is_trivial |-> FALSE]

\* decrypt_rlwe: m + e = b - s * a
decrypt_rlwe(rlwe_ct, sv) ==
    elwise_add(NttBackward(elwise_neg(elwise_mul(NttForward(rlwe_ct[0]),
                                                 NttForward(TryConvertFrom(sv))))),
               rlwe_ct[1])

\* gen_rlwe_public_key: part b of the key, s * a + e
gen_rlwe_public_key(sv, p_rng, r) ==
    LET a == NttForward(UniformRow(p_rng, Q, Len0(sv)))
        sa == NttBackward(elwise_mul(NttForward(TryConvertFrom(sv)), a))
        e == GaussianRow(r, Len0(sv))
    IN [part_b_out |-> elwise_add(e, sa),
        p_rng |-> Advance(p_rng, Len0(sv)),
        rng |-> Advance(r, Len0(sv)),
        e |-> e]

\* RlwePublicKey::from(&SeededRlwePublicKey)
RlwePublicKeyFromSeeded(value) ==
    [i \in 0..1 |->
        IF i = 0 THEN UniformRow(NewWithSeed(value.seed), value.modulus, Len0(value.data))
                 ELSE value.data]

\* the variant that adds the message to row 0
public_key_encrypt_rlwe_m_in_a(pkm, m, u, r) ==
    LET uev == NttForward(TryConvertFrom(u))
        ua == NttBackward(elwise_mul(NttForward(pkm[0]), uev))
        ub == NttBackward(elwise_mul(NttForward(pkm[1]), uev))
        e0 == GaussianRow(r, Len0(m))
        e1 == GaussianRow(Advance(r, Len0(m)), Len0(m))
    IN [rlwe_out |-> [i \in 0..1 |->
                        IF i = 0 THEN elwise_add(elwise_add(e0, ua), m)
                                 ELSE elwise_add(e1, ub)],
        rng |-> Advance(r, 2 * Len0(m)),
        e0 |-> e0, e1 |-> e1]

\* public_key_encrypt_rlwe: (p0 * u + e0, p1 * u + e1 + m); u is the ephemeral
\* ternary secret the function samples
public_key_encrypt_rlwe(pkm, m, u, r) ==
    LET uev == NttForward(TryConvertFrom(u))
        ua == NttBackward(elwise_mul(NttForward(pkm[0]), uev))
        ub == NttBackward(elwise_mul(NttForward(pkm[1]), uev))
        e0 == GaussianRow(r, Len0(m))
        e1 == GaussianRow(Advance(r, Len0(m)), Len0(m))
    IN [rlwe_out |-> [i \in 0..1 |->
                        IF i = 0 THEN elwise_add(e0, ua)
                                 ELSE elwise_add(elwise_add(e1, ub), m)],
        rng |-> Advance(r, 2 * Len0(m)),
        e0 |-> e0, e1 |-> e1]

\* --------------------------------------------------- gadget decomposition

\* the gadget vector (B^0, B^1, ...); B^D >= Q, so no low bits are dropped
gadget_vector == [j \in 0..(D - 1) |-> (Base ^ j) % Q]

\* the signed digit of a centred value, in (-B/2, B/2]
DigitOf(c) == ((c + (Base \div 2) - 1) % Base) - ((Base \div 2) - 1)

\* what is left of the centred value once j digits are taken out
RECURSIVE Carry(_, _)
Carry(c, j) ==
    IF j = 0 THEN c
    ELSE (Carry(c, j - 1) - DigitOf(Carry(c, j - 1))) \div Base

\* Decomposer::decompose: D signed digits, least significant first, each
\* stored as a residue mod q
decompose(x) == [j \in 0..(D - 1) |-> (DigitOf(Carry(Centered(x), j)) + Q) % Q]

\* decompose_r: decomp_r[j][ri] becomes digit j of coefficient ri of r, for
\* every coefficient of r and every j < d; what else decomp_r held stays
decompose_r(r, decomp_r) ==
    Stored([j \in DOMAIN decomp_r |->
        [ri \in DOMAIN decomp_r[j] |->
            IF j < D /\ ri \in DOMAIN r THEN decompose(r[ri])[j] ELSE decomp_r[j][ri]]])

\* ------------------------------------------------------- external product

\* a failed assertion: the call aborts and nothing is written
Panic == [panic |-> TRUE]

\* Matrix::dimension: (rows, columns)
dimension(m) == <<Len0(m), IF Len0(m) = 0 THEN 0 ELSE Len0(m[0])>>

\* rows from, from + 1, ..., from + n - 1 of a matrix, as a matrix
Rows(m, from, n) == Stored([j \in 0..(n - 1) |-> m[from + j]])

Min(a, b) == IF a < b THEN a ELSE b

\* routine: write_to_row += sum_j matrix_a[j] * matrix_b[j], over the rows
\* both matrices have
RECURSIVE routineUpTo(_, _, _, _)
routineUpTo(write_to_row, matrix_a, matrix_b, k) ==
    IF k < 0 THEN write_to_row
    ELSE elwise_fma(routineUpTo(write_to_row, matrix_a, matrix_b, k - 1),
                    matrix_a[k], matrix_b[k])
routine(write_to_row, matrix_a, matrix_b) ==
    routineUpTo(write_to_row, matrix_a, matrix_b, Min(Len0(matrix_a), Len0(matrix_b)) - 1)

\* the digits of a row, each sent to the evaluation domain
DecomposeNtt(r, decomp_r) ==
    LET dec == decompose_r(r, decomp_r) IN Stored([j \in DOMAIN dec |-> NttForward(dec[j])])

\* the variant that multiplies the digits of a with RLWE'(m) and the digits
\* of b with RLWE'(-sm)
rlwe_by_rgsw_swapped(rlwe_in, rgsw_in, scratch_matrix_dplus2_ring) ==
    LET d_rgsw == D
        ring == dimension(rlwe_in.data)[2]
    IN IF \/ dimension(scratch_matrix_dplus2_ring) # <<d_rgsw + 2, ring>>
          \/ dimension(rgsw_in) # <<d_rgsw * 4, ring>>
       THEN Panic
       ELSE LET scratch_matrix_d_ring == Rows(scratch_matrix_dplus2_ring, 0, d_rgsw)
                scratch_rlwe_out == [i \in 0..1 |->
                                        fill(scratch_matrix_dplus2_ring[d_rgsw + i], 0)]
                dec_a == DecomposeNtt(rlwe_in.data[0], scratch_matrix_d_ring)
                dec_b == DecomposeNtt(rlwe_in.data[1],
                                      IF rlwe_in.is_trivial THEN scratch_matrix_d_ring
                                      ELSE dec_a)
                a1 == IF rlwe_in.is_trivial THEN scratch_rlwe_out[0]
                      ELSE routine(scratch_rlwe_out[0], dec_a, Rows(rgsw_in, 2 * d_rgsw, d_rgsw))
                b1 == IF rlwe_in.is_trivial THEN scratch_rlwe_out[1]
                      ELSE routine(scratch_rlwe_out[1], dec_a, Rows(rgsw_in, 3 * d_rgsw, d_rgsw))
                a2 == NttBackward(routine(a1, dec_b, Rows(rgsw_in, 0, d_rgsw)))
                b2 == NttBackward(routine(b1, dec_b, Rows(rgsw_in, d_rgsw, d_rgsw)))
            IN [panic |-> FALSE,
                rlwe_in |-> [data |-> [i \in 0..1 |-> IF i = 0 THEN a2 ELSE b2],
                             is_trivial |-> FALSE],
                scratch |-> [j \in 0..(d_rgsw + 1) |->
                               IF j < d_rgsw THEN dec_b[j]
                               ELSE IF j = d_rgsw THEN a2 ELSE b2]]

\* the variant of set_not_trivial that leaves the flag as it is
set_not_trivial_skipped(ct) == ct

\* RlweCiphertext::from_raw
RlweCiphertextFromRaw(data, is_trivial) == [data |-> data, is_trivial |-> is_trivial]

\* IsTrivial::set_not_trivial
set_not_trivial(ct) == [ct EXCEPT !.is_trivial = FALSE]

\* the variant that pairs the digits left with the first rows of each block
less1_rlwe_by_rgsw_rows_from_0(rlwe_in, rgsw_in, scratch_matrix_dplus2_ring, skip0, skip1) ==
    LET d_rgsw == D
        ring == dimension(rlwe_in.data)[2]
    IN IF \/ dimension(scratch_matrix_dplus2_ring) # <<d_rgsw + 2, ring>>
          \/ dimension(rgsw_in) # <<d_rgsw * 4, ring>>
          \/ skip0 > d_rgsw
          \/ skip1 > d_rgsw
       THEN [panic |-> TRUE, rlwe_in |-> rlwe_in]
       ELSE LET scratch_matrix_d_ring == Rows(scratch_matrix_dplus2_ring, 0, d_rgsw)
                scratch_rlwe_out == [i \in 0..1 |->
                                        fill(scratch_matrix_dplus2_ring[d_rgsw + i], 0)]
                dec_a == DecomposeNtt(rlwe_in.data[0], scratch_matrix_d_ring)
                dec_b == DecomposeNtt(rlwe_in.data[1],
                                      IF rlwe_in.is_trivial THEN scratch_matrix_d_ring
                                      ELSE dec_a)
                a1 == IF rlwe_in.is_trivial THEN scratch_rlwe_out[0]
                      ELSE routine(scratch_rlwe_out[0], Rows(dec_a, skip0, d_rgsw - skip0),
                                   Rows(rgsw_in, 0, d_rgsw - skip0))
                b1 == IF rlwe_in.is_trivial THEN scratch_rlwe_out[1]
                      ELSE routine(scratch_rlwe_out[1], Rows(dec_a, skip0, d_rgsw - skip0),
                                   Rows(rgsw_in, d_rgsw, d_rgsw - skip0))
                a2 == NttBackward(routine(a1, Rows(dec_b, skip1, d_rgsw - skip1),
                                          Rows(rgsw_in, 2 * d_rgsw, d_rgsw - skip1)))
                b2 == NttBackward(routine(b1, Rows(dec_b, skip1, d_rgsw - skip1),
                                          Rows(rgsw_in, 3 * d_rgsw, d_rgsw - skip1)))
            IN [panic |-> FALSE,
                rlwe_in |-> set_not_trivial(
                                [rlwe_in EXCEPT !.data = [i \in 0..1 |->
                                                            IF i = 0 THEN a2 ELSE b2]]),
                scratch |-> [j \in 0..(d_rgsw + 1) |->
                               IF j < d_rgsw THEN dec_b[j]
                               ELSE IF j = d_rgsw THEN a2 ELSE b2]]

\* less1_rlwe_by_rgsw: rlwe_by_rgsw that leaves out the first skip0 digits of a
\* and the first skip1 digits of b, with the rows of the RGSW ciphertext they
\* would multiply
less1_rlwe_by_rgsw(rlwe_in, rgsw_in, scratch_matrix_dplus2_ring, skip0, skip1) ==
    LET d_rgsw == D
        ring == dimension(rlwe_in.data)[2]
    IN IF \/ dimension(scratch_matrix_dplus2_ring) # <<d_rgsw + 2, ring>>
          \/ dimension(rgsw_in) # <<d_rgsw * 4, ring>>
          \/ skip0 > d_rgsw
          \/ skip1 > d_rgsw
       THEN [panic |-> TRUE, rlwe_in |-> rlwe_in]
       ELSE LET scratch_matrix_d_ring == Rows(scratch_matrix_dplus2_ring, 0, d_rgsw)
                scratch_rlwe_out == [i \in 0..1 |->
                                        fill(scratch_matrix_dplus2_ring[d_rgsw + i], 0)]
                dec_a == DecomposeNtt(rlwe_in.data[0], scratch_matrix_d_ring)
                dec_b == DecomposeNtt(rlwe_in.data[1],
                                      IF rlwe_in.is_trivial THEN scratch_matrix_d_ring
                                      ELSE dec_a)
                a1 == IF rlwe_in.is_trivial THEN scratch_rlwe_out[0]
                      ELSE routine(scratch_rlwe_out[0], Rows(dec_a, skip0, d_rgsw - skip0),
                                   Rows(rgsw_in, skip0, d_rgsw - skip0))
                b1 == IF rlwe_in.is_trivial THEN scratch_rlwe_out[1]
                      ELSE routine(scratch_rlwe_out[1], Rows(dec_a, skip0, d_rgsw - skip0),
                                   Rows(rgsw_in, d_rgsw + skip0, d_rgsw - skip0))
                a2 == NttBackward(routine(a1, Rows(dec_b, skip1, d_rgsw - skip1),
                                          Rows(rgsw_in, 2 * d_rgsw + skip1, d_rgsw - skip1)))
                b2 == NttBackward(routine(b1, Rows(dec_b, skip1, d_rgsw - skip1),
                                          Rows(rgsw_in, 3 * d_rgsw + skip1, d_rgsw - skip1)))
            IN [panic |-> FALSE,
                rlwe_in |-> set_not_trivial(
                                [rlwe_in EXCEPT !.data = [i \in 0..1 |->
                                                            IF i = 0 THEN a2 ELSE b2]]),
                scratch |-> [j \in 0..(d_rgsw + 1) |->
                               IF j < d_rgsw THEN dec_b[j]
                               ELSE IF j = d_rgsw THEN a2 ELSE b2]]

\* the variant that clears the is_trivial flag before it checks the shapes
rlwe_by_rgsw_flag_first(rlwe_in, rgsw_in, scratch_matrix_dplus2_ring) ==
    less1_rlwe_by_rgsw(set_not_trivial(rlwe_in), rgsw_in, scratch_matrix_dplus2_ring, 0, 0)

\* the variant that multiplies the digits of a whatever the is_trivial flag
rlwe_by_rgsw_flag_ignored(rlwe_in, rgsw_in, scratch_matrix_dplus2_ring) ==
    IF \/ dimension(scratch_matrix_dplus2_ring) # <<D + 2, dimension(rlwe_in.data)[2]>>
       \/ dimension(rgsw_in) # <<D * 4, dimension(rlwe_in.data)[2]>>
    THEN [panic |-> TRUE, rlwe_in |-> rlwe_in]
    ELSE less1_rlwe_by_rgsw(set_not_trivial(rlwe_in), rgsw_in, scratch_matrix_dplus2_ring,
                            0, 0)

\* the variant that adds the products to the two last scratch rows as it
\* finds them
rlwe_by_rgsw_rows_as_found(rlwe_in, rgsw_in, scratch_matrix_dplus2_ring) ==
    LET d_rgsw == D
        ring == dimension(rlwe_in.data)[2]
    IN IF \/ dimension(scratch_matrix_dplus2_ring) # <<d_rgsw + 2, ring>>
          \/ dimension(rgsw_in) # <<d_rgsw * 4, ring>>
       THEN [panic |-> TRUE, rlwe_in |-> rlwe_in]
       ELSE LET scratch_matrix_d_ring == Rows(scratch_matrix_dplus2_ring, 0, d_rgsw)
                scratch_rlwe_out == [i \in 0..1 |-> scratch_matrix_dplus2_ring[d_rgsw + i]]
                dec_a == DecomposeNtt(rlwe_in.data[0], scratch_matrix_d_ring)
                dec_b == DecomposeNtt(rlwe_in.data[1],
                                      IF rlwe_in.is_trivial THEN scratch_matrix_d_ring
                                      ELSE dec_a)
                a1 == IF rlwe_in.is_trivial THEN scratch_rlwe_out[0]
                      ELSE routine(scratch_rlwe_out[0], dec_a, Rows(rgsw_in, 0, d_rgsw))
                b1 == IF rlwe_in.is_trivial THEN scratch_rlwe_out[1]
                      ELSE routine(scratch_rlwe_out[1], dec_a, Rows(rgsw_in, d_rgsw, d_rgsw))
                a2 == NttBackward(routine(a1, dec_b, Rows(rgsw_in, 2 * d_rgsw, d_rgsw)))
                b2 == NttBackward(routine(b1, dec_b, Rows(rgsw_in, 3 * d_rgsw, d_rgsw)))
            IN [panic |-> FALSE,
                rlwe_in |-> set_not_trivial(
                                [rlwe_in EXCEPT !.data = [i \in 0..1 |->
                                                            IF i = 0 THEN a2 ELSE b2]]),
                scratch |-> [j \in 0..(d_rgsw + 1) |->
                               IF j < d_rgsw THEN dec_b[j]
                               ELSE IF j = d_rgsw THEN a2 ELSE b2]]

\* rlwe_by_rgsw: RLWE(m0) x RGSW(m1), written over rlwe_in; the scratch matrix
\* is left holding the digits of b and the result
rlwe_by_rgsw(rlwe_in, rgsw_in, scratch_matrix_dplus2_ring) ==
    LET d_rgsw == D
        ring == dimension(rlwe_in.data)[2]
    IN IF \/ dimension(scratch_matrix_dplus2_ring) # <<d_rgsw + 2, ring>>
          \/ dimension(rgsw_in) # <<d_rgsw * 4, ring>>
       THEN [panic |-> TRUE, rlwe_in |-> rlwe_in]
       ELSE LET scratch_matrix_d_ring == Rows(scratch_matrix_dplus2_ring, 0, d_rgsw)
                scratch_rlwe_out == [i \in 0..1 |->
                                        fill(scratch_matrix_dplus2_ring[d_rgsw + i], 0)]
                dec_a == DecomposeNtt(rlwe_in.data[0], scratch_matrix_d_ring)
                dec_b == DecomposeNtt(rlwe_in.data[1],
                                      IF rlwe_in.is_trivial THEN scratch_matrix_d_ring
                                      ELSE dec_a)
                a1 == IF rlwe_in.is_trivial THEN scratch_rlwe_out[0]
                      ELSE routine(scratch_rlwe_out[0], dec_a, Rows(rgsw_in, 0, d_rgsw))
                b1 == IF rlwe_in.is_trivial THEN scratch_rlwe_out[1]
                      ELSE routine(scratch_rlwe_out[1], dec_a, Rows(rgsw_in, d_rgsw, d_rgsw))
                a2 == NttBackward(routine(a1, dec_b, Rows(rgsw_in, 2 * d_rgsw, d_rgsw)))
                b2 == NttBackward(routine(b1, dec_b, Rows(rgsw_in, 3 * d_rgsw, d_rgsw)))
            IN [panic |-> FALSE,
                rlwe_in |-> set_not_trivial(
                                [rlwe_in EXCEPT !.data = [i \in 0..1 |->
                                                            IF i = 0 THEN a2 ELSE b2]]),
                scratch |-> [j \in 0..(d_rgsw + 1) |->
                               IF j < d_rgsw THEN dec_b[j]
                               ELSE IF j = d_rgsw THEN a2 ELSE b2]]

\* -------------------------------------------------------- internal product

\* what decomp_r_space holds after each decomposition of the loop of
\* rgsw_by_rgsw_inplace, from the t-th on: every decomposition writes over
\* what the one before it left
RECURSIVE DecomposedInTurn(_, _, _)
DecomposedInTurn(rows, decomp_r_space, t) ==
    IF t >= Len0(rows) THEN <<>>
    ELSE LET written == DecomposeNtt(rows[t], decomp_r_space)
         IN <<written>> \o DecomposedInTurn(rows, written, t + 1)

\* rgsw_by_rgsw_inplace that leaves the rows in evaluation domain
rgsw_by_rgsw_inplace_eval(rgsw_0, rgsw_1_eval, scratch_matrix_d_plus_rgsw_by_ring) ==
    LET d_rgsw == D
        ring_size == dimension(rgsw_0)[2]
    IN IF \/ dimension(rgsw_0)[1] # 4 * d_rgsw
          \/ dimension(rgsw_1_eval) # <<4 * d_rgsw, ring_size>>
          \/ dimension(scratch_matrix_d_plus_rgsw_by_ring) # <<d_rgsw + (d_rgsw * 4), ring_size>>
       THEN Panic
       ELSE LET row_a(j) == IF j < d_rgsw THEN j ELSE d_rgsw + j
                row_b(j) == row_a(j) + d_rgsw
                scratch == scratch_matrix_d_plus_rgsw_by_ring
                zeroed(r) == fill(scratch[d_rgsw + r], 0)
                decomposed == DecomposedInTurn(
                                  [t \in 0..(4 * d_rgsw - 1) |->
                                      rgsw_0[IF t % 2 = 0 THEN row_a(t \div 2)
                                             ELSE row_b(t \div 2)]],
                                  Rows(scratch, 0, d_rgsw), 0)
                dec_a(j) == decomposed[2 * j + 1]
                dec_b(j) == decomposed[2 * j + 2]
                out_a(j) == routine(routine(zeroed(row_a(j)), dec_a(j),
                                            Rows(rgsw_1_eval, 0, d_rgsw)),
                                    dec_b(j), Rows(rgsw_1_eval, 2 * d_rgsw, d_rgsw))
                out_b(j) == routine(routine(zeroed(row_b(j)), dec_a(j),
                                            Rows(rgsw_1_eval, d_rgsw, d_rgsw)),
                                    dec_b(j), Rows(rgsw_1_eval, 3 * d_rgsw, d_rgsw))
                pair(r) == IF r < 2 * d_rgsw THEN r % d_rgsw ELSE d_rgsw + (r % d_rgsw)
                rgsw_space == Stored([r \in 0..(4 * d_rgsw - 1) |->
                                        IF (r \div d_rgsw) % 2 = 0 THEN out_a(pair(r))
                                        ELSE out_b(pair(r))])
            IN [panic |-> FALSE,
                rgsw_0 |-> rgsw_space,
                scratch |-> [r \in 0..(5 * d_rgsw - 1) |->
                               IF r < d_rgsw THEN dec_b(2 * d_rgsw - 1)[r]
                               ELSE rgsw_space[r - d_rgsw]]]

\* rgsw_by_rgsw_inplace: RGSW(m0) x RGSW(m1) written over rgsw_0. Pair j of
\* rgsw_0 is rows (j, d + j) for j < d and rows (d + j, 2d + j) for the
\* next d; each pair is multiplied with rgsw_1 in evaluation domain, and
\* the 4d rows are sent back to coefficient domain at the end
rgsw_by_rgsw_inplace(rgsw_0, rgsw_1_eval, scratch_matrix_d_plus_rgsw_by_ring) ==
    LET d_rgsw == D
        ring_size == dimension(rgsw_0)[2]
    IN IF \/ dimension(rgsw_0)[1] # 4 * d_rgsw
          \/ dimension(rgsw_1_eval) # <<4 * d_rgsw, ring_size>>
          \/ dimension(scratch_matrix_d_plus_rgsw_by_ring) # <<d_rgsw + (d_rgsw * 4), ring_size>>
       THEN [panic |-> TRUE, rgsw_0 |-> rgsw_0]
       ELSE LET row_a(j) == IF j < d_rgsw THEN j ELSE d_rgsw + j
                row_b(j) == row_a(j) + d_rgsw
                scratch == scratch_matrix_d_plus_rgsw_by_ring
                zeroed(r) == fill(scratch[d_rgsw + r], 0)
                decomposed == DecomposedInTurn(
                                  [t \in 0..(4 * d_rgsw - 1) |->
                                      rgsw_0[IF t % 2 = 0 THEN row_a(t \div 2)
                                             ELSE row_b(t \div 2)]],
                                  Rows(scratch, 0, d_rgsw), 0)
                dec_a(j) == decomposed[2 * j + 1]
                dec_b(j) == decomposed[2 * j + 2]
                out_a(j) == routine(routine(zeroed(row_a(j)), dec_a(j),
                                            Rows(rgsw_1_eval, 0, d_rgsw)),
                                    dec_b(j), Rows(rgsw_1_eval, 2 * d_rgsw, d_rgsw))
                out_b(j) == routine(routine(zeroed(row_b(j)), dec_a(j),
                                            Rows(rgsw_1_eval, d_rgsw, d_rgsw)),
                                    dec_b(j), Rows(rgsw_1_eval, 3 * d_rgsw, d_rgsw))
                pair(r) == IF r < 2 * d_rgsw THEN r % d_rgsw ELSE d_rgsw + (r % d_rgsw)
                rgsw_space == Stored([r \in 0..(4 * d_rgsw - 1) |->
                                        IF (r \div d_rgsw) % 2 = 0 THEN out_a(pair(r))
                                        ELSE out_b(pair(r))])
            IN [panic |-> FALSE,
                rgsw_0 |-> [r \in 0..(4 * d_rgsw - 1) |-> NttBackward(rgsw_space[r])],
                scratch |-> [r \in 0..(5 * d_rgsw - 1) |->
                               IF r < d_rgsw THEN dec_b(2 * d_rgsw - 1)[r]
                               ELSE rgsw_space[r - d_rgsw]]]

\* ------------------------------------------------- Galois automorphisms

\* generate_auto_map with a negative k taken as |k|
generate_auto_map_abs(ring_size, k) ==
    IF k % 2 # 1 THEN Panic
    ELSE LET ku == IF k < 0 THEN -k ELSE k
             to(i) == (i * ku) % (2 * ring_size)
         IN [panic |-> FALSE,
             index |-> [i \in 0..(ring_size - 1) |->
                          IF to(i) >= ring_size THEN to(i) - ring_size ELSE to(i)],
             sign |-> [i \in 0..(ring_size - 1) |-> to(i) < ring_size]]

\* generate_auto_map that never marks a coefficient for negation
generate_auto_map_unsigned(ring_size, k) ==
    IF k % 2 # 1 THEN Panic
    ELSE LET ku == IF k < 0 THEN (2 * ring_size) - ((-k) % (2 * ring_size)) ELSE k
             to(i) == (i * ku) % (2 * ring_size)
         IN [panic |-> FALSE,
             index |-> [i \in 0..(ring_size - 1) |->
                          IF to(i) >= ring_size THEN to(i) - ring_size ELSE to(i)],
             sign |-> [i \in 0..(ring_size - 1) |-> TRUE]]

\* generate_auto_map without its assert that k is odd
generate_auto_map_any_k(ring_size, k) ==
    LET ku == IF k < 0 THEN (2 * ring_size) - ((-k) % (2 * ring_size)) ELSE k
        to(i) == (i * ku) % (2 * ring_size)
    IN [panic |-> FALSE,
        index |-> [i \in 0..(ring_size - 1) |->
                     IF to(i) >= ring_size THEN to(i) - ring_size ELSE to(i)],
        sign |-> [i \in 0..(ring_size - 1) |-> to(i) < ring_size]]

\* generate_auto_map: coefficient i goes to index i * k mod 2N, less N and
\* with sign false (negate) when that is N or more
generate_auto_map(ring_size, k) ==
    IF k % 2 # 1 THEN Panic
    ELSE LET ku == IF k < 0 THEN (2 * ring_size) - ((-k) % (2 * ring_size)) ELSE k
             to(i) == (i * ku) % (2 * ring_size)
         IN [panic |-> FALSE,
             index |-> [i \in 0..(ring_size - 1) |->
                          IF to(i) >= ring_size THEN to(i) - ring_size ELSE to(i)],
             sign |-> [i \in 0..(ring_size - 1) |-> to(i) < ring_size]]

Max(S) == CHOOSE x \in S : \A y \in S : y <= x

\* the writes row[index[i]] = vals[i] for i = 0, 1, ... over what row held
Scatter(row, vals, index) ==
    Stored([t \in DOMAIN row |->
        LET hits == {i \in (DOMAIN vals) \cap (DOMAIN index) : index[i] = t}
        IN IF hits = {} THEN row[t] ELSE vals[Max(hits)]])

\* rlwe_ksk_gen: part B of RLWE'_{to_s}(neg_from_s), row i is
\* e_i + to_s * a_i + beta_i * neg_from_s with a_i drawn from p_rng
rlwe_ksk_gen(ksk_out, neg_from_s, to_s, gv, p_rng, r) ==
    LET ring_size == Len0(neg_from_s)
        d == Len0(gv)
    IN IF dimension(ksk_out) # <<d, ring_size>> THEN Panic
       ELSE LET to_s_eval == NttForward(to_s)
                a(i) == UniformRow(Advance(p_rng, i * ring_size), Q, ring_size)
                e == Stored([i \in 0..(d - 1) |->
                                GaussianRow(Advance(r, i * ring_size), ring_size)])
            IN [panic |-> FALSE,
                ksk_out |-> [i \in 0..(d - 1) |->
                               elwise_add(elwise_add(e[i],
                                              NttBackward(elwise_mul(NttForward(a(i)),
                                                                     to_s_eval))),
                                          elwise_scalar_mul(neg_from_s, gv[i]))],
                p_rng |-> Advance(p_rng, d * ring_size),
                rng |-> Advance(r, d * ring_size),
                a |-> Stored([i \in 0..(d - 1) |-> a(i)]),
                e |-> e,
                neg_from_s |-> neg_from_s]

\* galois_key_gen: the key switching key from -s(X^k) to s(X)
galois_key_gen(ksk_out, sv, auto_k, gv, p_rng, r) ==
    LET ring_size == Len0(sv)
        auto_map == generate_auto_map(ring_size, auto_k)
    IN IF auto_map.panic THEN Panic
       ELSE LET sq == TryConvertFrom(sv)
                vals == [i \in DOMAIN sq |-> IF auto_map.sign[i] THEN Q - sq[i] ELSE sq[i]]
                neg_s_auto == Scatter(ZeroRow, vals, auto_map.index)
            IN rlwe_ksk_gen(ksk_out, neg_s_auto, sq, gv, p_rng, r)

\* AutoKeyEvaluationDomain::from(&SeededAutoKey): 2d rows, part A drawn again
\* from the seed, every row sent to evaluation domain
AutoKeyEvaluationDomainFromSeeded(value) ==
    LET d == dimension(value.data)[1]
        ring_size == dimension(value.data)[2]
        p_rng == NewWithSeed(value.seed)
    IN [data |-> [j \in 0..(2 * d - 1) |->
                    NttForward(IF j < d
                               THEN UniformRow(Advance(p_rng, j * ring_size), value.modulus,
                                               ring_size)
                               ELSE value.data[j - d])]]

\* the variant that sends a to a(X^k) as well when the input is flagged
\* trivial
galois_auto_a_permuted(rlwe_in, ksk, scratch_matrix_dplus2_ring, auto_map_index, auto_map_sign) ==
    LET d == D
        signed(row) == [i \in (DOMAIN row) \cap (DOMAIN auto_map_sign) |->
                          IF ~auto_map_sign[i] THEN neg(row[i]) ELSE row[i]]
        b_k == Scatter(scratch_matrix_dplus2_ring[d + 1], signed(rlwe_in.data[1]),
                       auto_map_index)
    IN IF Len0(scratch_matrix_dplus2_ring) < d + 2 THEN [panic |-> TRUE, rlwe_in |-> rlwe_in]
       ELSE IF rlwe_in.is_trivial
       THEN LET a_k == Scatter(scratch_matrix_dplus2_ring[d], signed(rlwe_in.data[0]),
                               auto_map_index)
            IN [panic |-> FALSE,
                rlwe_in |-> [rlwe_in EXCEPT !.data = [i \in 0..1 |->
                                                        IF i = 0 THEN a_k ELSE b_k]],
                scratch |-> [scratch_matrix_dplus2_ring EXCEPT ![d] = a_k, ![d + 1] = b_k]]
       ELSE IF Len0(ksk) < d THEN [panic |-> TRUE, rlwe_in |-> rlwe_in]
       ELSE LET a_k == signed(rlwe_in.data[0])
                digits == Stored([j \in 0..(d - 1) |->
                             NttForward(Scatter(scratch_matrix_dplus2_ring[j],
                                                [i \in DOMAIN a_k |-> decompose(a_k[i])[j]],
                                                auto_map_index))])
                ksk_a == Rows(ksk, 0, d)
                ksk_b == Rows(ksk, d, Len0(ksk) - d)
                a_out == NttBackward(routine(fill(scratch_matrix_dplus2_ring[d], 0), digits,
                                             ksk_a))
                b_out == NttBackward(routine(NttForward(b_k), digits, ksk_b))
            IN [panic |-> FALSE,
                rlwe_in |-> [rlwe_in EXCEPT !.data = [i \in 0..1 |->
                                                        IF i = 0 THEN a_out ELSE b_out]],
                scratch |-> [j \in DOMAIN scratch_matrix_dplus2_ring |->
                               IF j < d THEN digits[j]
                               ELSE IF j = d THEN a_out
                               ELSE IF j = d + 1 THEN b_out
                               ELSE NttBackward(scratch_matrix_dplus2_ring[j])]]

\* galois_auto: RLWE(m(X)) -> RLWE(m(X^k)) in place; b is permuted, and for a
\* non-trivial input a is permuted, decomposed and key switched. No dimension
\* is asserted: the call fails where a split or an index runs past the rows
\* there are, that is with fewer than d + 2 scratch rows, or fewer than d key
\* rows for a non-trivial input
galois_auto(rlwe_in, ksk, scratch_matrix_dplus2_ring, auto_map_index, auto_map_sign) ==
    LET d == D
        signed(row) == [i \in (DOMAIN row) \cap (DOMAIN auto_map_sign) |->
                          IF ~auto_map_sign[i] THEN neg(row[i]) ELSE row[i]]
        b_k == Scatter(scratch_matrix_dplus2_ring[d + 1], signed(rlwe_in.data[1]),
                       auto_map_index)
    IN IF Len0(scratch_matrix_dplus2_ring) < d + 2 THEN [panic |-> TRUE, rlwe_in |-> rlwe_in]
       ELSE IF rlwe_in.is_trivial
       THEN [panic |-> FALSE,
             rlwe_in |-> [rlwe_in EXCEPT !.data[1] = b_k],
             scratch |-> [scratch_matrix_dplus2_ring EXCEPT ![d + 1] = b_k]]
       ELSE IF Len0(ksk) < d THEN [panic |-> TRUE, rlwe_in |-> rlwe_in]
       ELSE LET a_k == signed(rlwe_in.data[0])
                digits == Stored([j \in 0..(d - 1) |->
                             NttForward(Scatter(scratch_matrix_dplus2_ring[j],
                                                [i \in DOMAIN a_k |-> decompose(a_k[i])[j]],
                                                auto_map_index))])
                ksk_a == Rows(ksk, 0, d)
                ksk_b == Rows(ksk, d, Len0(ksk) - d)
                a_out == NttBackward(routine(fill(scratch_matrix_dplus2_ring[d], 0), digits,
                                             ksk_a))
                b_out == NttBackward(routine(NttForward(b_k), digits, ksk_b))
            IN [panic |-> FALSE,
                rlwe_in |-> [rlwe_in EXCEPT !.data = [i \in 0..1 |->
                                                        IF i = 0 THEN a_out ELSE b_out]],
                scratch |-> [j \in DOMAIN scratch_matrix_dplus2_ring |->
                               IF j < d THEN digits[j]
                               ELSE IF j = d THEN a_out
                               ELSE IF j = d + 1 THEN b_out
                               ELSE NttBackward(scratch_matrix_dplus2_ring[j])]]

\* ------------------------------------------------------- RGSW encryption

\* RngCore::fill_bytes: a fresh seed taken from a generator
fill_bytes(r) == [seed |-> PrngValue(r.seed, r.pos, MaxSeed + 1), rng |-> Advance(r, 1)]

\* the variant that adds beta_i * m to a_i before a_i * s is taken for part B
\* of RLWE'(-sm)
secret_key_encrypt_rgsw_msg_first(m, gv, sv, p_rng, r) ==
    LET d == Len0(gv)
        ring_size == Len0(sv)
        s_eval == NttForward(TryConvertFrom(sv))
        a_nsm == Stored([i \in 0..(d - 1) |->
                            UniformRow(Advance(r, 2 * i * ring_size), Q, ring_size)])
        e_nsm == Stored([i \in 0..(d - 1) |->
                            GaussianRow(Advance(r, (2 * i + 1) * ring_size), ring_size)])
        a_m == Stored([i \in 0..(d - 1) |->
                          UniformRow(Advance(p_rng, i * ring_size), Q, ring_size)])
        e_m == Stored([i \in 0..(d - 1) |->
                          GaussianRow(Advance(r, (2 * d + i) * ring_size), ring_size)])
        as(a) == NttBackward(elwise_mul(NttForward(a), s_eval))
    IN [out_rgsw |-> [j \in 0..(3 * d - 1) |->
                        IF j < d
                        THEN elwise_add(a_nsm[j], elwise_scalar_mul(m, gv[j]))
                        ELSE IF j < 2 * d
                        THEN elwise_add(e_nsm[j - d],
                                        as(elwise_add(a_nsm[j - d],
                                                      elwise_scalar_mul(m, gv[j - d]))))
                        ELSE elwise_add(elwise_add(e_m[j - 2 * d],
                                                   elwise_scalar_mul(m, gv[j - 2 * d])),
                                        as(a_m[j - 2 * d]))],
        p_rng |-> Advance(p_rng, d * ring_size),
        rng |-> Advance(r, 3 * d * ring_size),
        a_nsm |-> a_nsm,
        e_nsm |-> e_nsm,
        a_m |-> a_m,
        e_m |-> e_m]

\* secret_key_encrypt_rgsw: the seeded ciphertext's 3d rows,
\*   [0, d)   a_i + beta_i * m        (part A of RLWE'(-sm), a_i from rng)
\*   [d, 2d)  e_i + a_i * s           (part B of RLWE'(-sm))
\*   [2d, 3d) e_i + beta_i * m + a_i * s  (part B of RLWE'(m), a_i from p_rng)
\* rng gives a_i and then e_i for each row of RLWE'(-sm), then the d errors
\* of RLWE'(m)
secret_key_encrypt_rgsw(m, gv, sv, p_rng, r) ==
    LET d == Len0(gv)
        ring_size == Len0(sv)
        s_eval == NttForward(TryConvertFrom(sv))
        a_nsm == Stored([i \in 0..(d - 1) |->
                            UniformRow(Advance(r, 2 * i * ring_size), Q, ring_size)])
        e_nsm == Stored([i \in 0..(d - 1) |->
                            GaussianRow(Advance(r, (2 * i + 1) * ring_size), ring_size)])
        a_m == Stored([i \in 0..(d - 1) |->
                          UniformRow(Advance(p_rng, i * ring_size), Q, ring_size)])
        e_m == Stored([i \in 0..(d - 1) |->
                          GaussianRow(Advance(r, (2 * d + i) * ring_size), ring_size)])
        as(a) == NttBackward(elwise_mul(NttForward(a), s_eval))
    IN [out_rgsw |-> [j \in 0..(3 * d - 1) |->
                        IF j < d
                        THEN elwise_add(a_nsm[j], elwise_scalar_mul(m, gv[j]))
                        ELSE IF j < 2 * d
                        THEN elwise_add(e_nsm[j - d], as(a_nsm[j - d]))
                        ELSE elwise_add(elwise_add(e_m[j - 2 * d],
                                                   elwise_scalar_mul(m, gv[j - 2 * d])),
                                        as(a_m[j - 2 * d]))],
        p_rng |-> Advance(p_rng, d * ring_size),
        rng |-> Advance(r, 3 * d * ring_size),
        a_nsm |-> a_nsm,
        e_nsm |-> e_nsm,
        a_m |-> a_m,
        e_m |-> e_m]

\* the variant that gives the rows of part A of RLWE'(m) the draws of the seed
\* last row first
RgswCiphertextEvaluationDomainFromSeededReversed(value) ==
    LET d == Len0(value.data) \div 3
        ring_size == dimension(value.data)[2]
        p_rng == NewWithSeed(value.seed)
    IN [data |-> [j \in 0..(4 * d - 1) |->
                    NttForward(IF j < 2 * d THEN value.data[j]
                               ELSE IF j < 3 * d
                               THEN UniformRow(Advance(p_rng, (3 * d - 1 - j) * ring_size),
                                               value.modulus, ring_size)
                               ELSE value.data[j - d])]]

\* RgswCiphertextEvaluationDomain::from(&SeededRgswCiphertext): 4d rows, part A
\* of RLWE'(m) drawn again from the seed, every row sent to evaluation domain
RgswCiphertextEvaluationDomainFromSeeded(value) ==
    LET d == Len0(value.data) \div 3
        ring_size == dimension(value.data)[2]
        p_rng == NewWithSeed(value.seed)
    IN [data |-> [j \in 0..(4 * d - 1) |->
                    NttForward(IF j < 2 * d THEN value.data[j]
                               ELSE IF j < 3 * d
                               THEN UniformRow(Advance(p_rng, (j - 2 * d) * ring_size),
                                               value.modulus, ring_size)
                               ELSE value.data[j - d])]]

\* -------------------------------------------------- server key expansion

\* lwe_n, lwe_q and the LWE-KSK decomposition count of the parameters
LweN == 2
LweQ == 16
LweD == 1

\* BoolParameters, for a list of auto element dlogs and the two RGSW
\* decomposition counts
BoolParameters(dlogs, d_a, d_b) ==
    [rlwe_n |-> RingSize, lwe_n |-> LweN, rlwe_q |-> Q, lwe_q |-> LweQ,
     auto_decomposition_count |-> D,
     rlwe_rgsw_decomposition_count |-> <<d_a, d_b>>,
     lwe_decomposition_count |-> LweD,
     non_interactive_ui_to_s_key_switch_decomposition_count |-> D,
     auto_element_dlogs |-> dlogs]

\* SeededSinglePartyServerKey::from_raw: the sanity checks, then the key
SeededSinglePartyServerKeyFromRaw(auto_keys, rgsw_cts, lwe_ksk, parameters, seed) ==
    LET part_a_d == parameters.rlwe_rgsw_decomposition_count[1]
        part_b_d == parameters.rlwe_rgsw_decomposition_count[2]
    IN IF \/ \E k \in DOMAIN auto_keys :
                dimension(auto_keys[k]) # <<parameters.auto_decomposition_count,
                                            parameters.rlwe_n>>
          \/ \E c \in DOMAIN rgsw_cts :
                dimension(rgsw_cts[c]) # <<part_a_d * 2 + part_b_d, parameters.rlwe_n>>
          \/ Len0(lwe_ksk) # parameters.lwe_decomposition_count * parameters.rlwe_n
       THEN Panic
       ELSE [panic |-> FALSE,
             key |-> [kind |-> "single", rgsw_cts |-> rgsw_cts, auto_keys |-> auto_keys,
                      lwe_ksk |-> lwe_ksk, parameters |-> parameters, seed |-> seed]]

\* SeededMultiPartyServerKey::new
SeededMultiPartyServerKeyNew(rgsw_cts, auto_keys, lwe_ksk, cr_seed, parameters) ==
    [kind |-> "multi", rgsw_cts |-> rgsw_cts, auto_keys |-> auto_keys,
     lwe_ksk |-> lwe_ksk, parameters |-> parameters, seed |-> cr_seed]

\* the draws of a set of draws, in the order of their stream positions
DrawsInOrder(S) ==
    [e \in 1..Cardinality(S) |->
        CHOOSE x \in S : Cardinality({y \in S : y.pos < x.pos}) = e - 1]

\* single-party expansion with the LWE-KSK values drawn before the RGSW rows
SinglePartyDrawLayoutLweFirst(parameters, n_rgsw) ==
    LET n_auto == Len0(parameters.auto_element_dlogs)
        auto_end == n_auto * parameters.auto_decomposition_count * parameters.rlwe_n
        lwe_end == auto_end + parameters.lwe_decomposition_count * parameters.rlwe_n
                              * parameters.lwe_n
    IN [auto |-> 0, rgsw |-> lwe_end, lwe |-> auto_end,
        rgsw_rows |-> parameters.rlwe_rgsw_decomposition_count[2]]

\* where in main_prng's stream the three loops of the single-party expansion
\* start: the auto keys, then the RGSW ciphertexts (rlrg_b_decomp rows of
\* each), then the LWE-KSK rows
SinglePartyDrawLayout(parameters, n_rgsw) ==
    LET n_auto == Len0(parameters.auto_element_dlogs)
        auto_end == n_auto * parameters.auto_decomposition_count * parameters.rlwe_n
        rgsw_end == auto_end + n_rgsw * parameters.rlwe_rgsw_decomposition_count[2]
                               * parameters.rlwe_n
    IN [auto |-> 0, rgsw |-> auto_end, lwe |-> rgsw_end,
        rgsw_rows |-> parameters.rlwe_rgsw_decomposition_count[2]]

\* the interactive multi-party expansion drawing rlrg_b_decomp rows for each
\* RGSW ciphertext, as the single-party one does
MultiPartyDrawLayoutWithRgsw(parameters, n_rgsw) ==
    LET n_auto == Len0(parameters.auto_element_dlogs)
        auto_end == n_auto * parameters.auto_decomposition_count * parameters.rlwe_n
        rgsw_end == auto_end + n_rgsw * parameters.rlwe_rgsw_decomposition_count[2]
                               * parameters.rlwe_n
    IN [auto |-> 0, rgsw |-> auto_end, lwe |-> rgsw_end,
        rgsw_rows |-> parameters.rlwe_rgsw_decomposition_count[2]]

\* the interactive multi-party expansion: the auto keys, then the LWE-KSK
\* rows; the RGSW ciphertexts are not drawn for
MultiPartyDrawLayout(parameters, n_rgsw) ==
    LET n_auto == Len0(parameters.auto_element_dlogs)
        auto_end == n_auto * parameters.auto_decomposition_count * parameters.rlwe_n
    IN [auto |-> 0, rgsw |-> auto_end, lwe |-> auto_end, rgsw_rows |-> 0]

\* the CSPRNG a variant of the expander below starts from: the stream of the
\* seed, carried on from where the last expansion stopped
ExpanderPrngContinuing(seed, left) == Advance(NewWithSeed(seed), left.pos)

\* the CSPRNG an expansion starts from: R::new_with_seed(value.seed), whatever
\* an earlier expansion left behind
ExpanderPrng(seed, left) == NewWithSeed(seed)

\* the draws made for the auto keys: auto_decomposition_count rows of rlwe_n
\* values for each dlog, in the order of auto_element_dlogs
AutoKeyDraws(parameters, start) ==
    {[group |-> "auto", key |-> parameters.auto_element_dlogs[k], row |-> r,
      pos |-> start + (k * parameters.auto_decomposition_count + r) * parameters.rlwe_n,
      n |-> parameters.rlwe_n, modulus |-> parameters.rlwe_q] :
        k \in DOMAIN parameters.auto_element_dlogs,
        r \in 0..(parameters.auto_decomposition_count - 1)}

\* the draws made for the RGSW ciphertexts: rows of rlwe_n values for each
RgswDraws(parameters, n_rgsw, rows, start) ==
    {[group |-> "rgsw", key |-> c, row |-> r,
      pos |-> start + (c * rows + r) * parameters.rlwe_n,
      n |-> parameters.rlwe_n, modulus |-> parameters.rlwe_q] :
        c \in 0..(n_rgsw - 1), r \in 0..(rows - 1)}

\* the draws made for the LWE-KSK: lwe_n values for each row
LweKskDraws(parameters, n_rows, start) ==
    {[group |-> "lwe", key |-> 0, row |-> r, pos |-> start + r * parameters.lwe_n,
      n |-> parameters.lwe_n, modulus |-> parameters.lwe_q] : r \in 0..(n_rows - 1)}

\* the values of one draw
DrawnRow(prng, draw) == UniformRow(Advance(prng, draw.pos), draw.modulus, draw.n)

\* the one draw of a set made for (group, key, row)
DrawFor(S, group, key, row) ==
    CHOOSE x \in S : x.group = group /\ x.key = key /\ x.row = row

\* the number of values a set of draws takes from the stream
DrawnCount(S) == IF S = {} THEN 0 ELSE Max({x.pos + x.n : x \in S})

\* the expanded auto keys: for each dlog, the drawn rows above the stored
\* rows, every row sent to evaluation domain
ExpandAutoKeys(value, prng, draws) ==
    LET d == value.parameters.auto_decomposition_count
        dlogs == value.parameters.auto_element_dlogs
    IN [i \in {dlogs[k] : k \in DOMAIN dlogs} |->
          [r \in 0..(2 * d - 1) |->
              NttForward(IF r < d THEN DrawnRow(prng, DrawFor(draws, "auto", i, r))
                                  ELSE value.auto_keys[i][r - d])]]

\* the expanded LWE-KSK with the stored b_i put after the drawn values
ExpandLweKskBLast(value, n_rows, prng, draws) ==
    [i \in 0..(n_rows - 1) |->
        [col \in 0..value.parameters.lwe_n |->
            IF col = value.parameters.lwe_n THEN value.lwe_ksk[i]
            ELSE DrawnRow(prng, DrawFor(draws, "lwe", 0, i))[col]]]

\* the expanded LWE-KSK: row i is the stored b_i and then lwe_n drawn values
ExpandLweKsk(value, n_rows, prng, draws) ==
    [i \in 0..(n_rows - 1) |->
        [col \in 0..value.parameters.lwe_n |->
            IF col = 0 THEN value.lwe_ksk[i]
            ELSE DrawnRow(prng, DrawFor(draws, "lwe", 0, i))[col - 1]]]

\* ServerKeyEvaluationDomain::from(&SeededSinglePartyServerKey); left is the
\* CSPRNG an earlier expansion ended with
ServerKeyEvaluationDomainFromSingleParty(value, left) ==
    LET parameters == value.parameters
        ring_size == parameters.rlwe_n
        main_prng == ExpanderPrng(value.seed, left)
        auto_decomp_count == parameters.auto_decomposition_count
        dlogs == parameters.auto_element_dlogs
        rlrg_a_decomp == parameters.rlwe_rgsw_decomposition_count[1]
        rlrg_b_decomp == parameters.rlwe_rgsw_decomposition_count[2]
        d == parameters.lwe_decomposition_count
        layout == SinglePartyDrawLayout(parameters, Len0(value.rgsw_cts))
        draws == AutoKeyDraws(parameters, layout.auto)
                 \cup RgswDraws(parameters, Len0(value.rgsw_cts), layout.rgsw_rows,
                                layout.rgsw)
                 \cup LweKskDraws(parameters, d * ring_size, layout.lwe)
    IN IF \/ \E k \in DOMAIN dlogs : dlogs[k] \notin DOMAIN value.auto_keys
          \/ \E k \in DOMAIN dlogs :
                dimension(value.auto_keys[dlogs[k]]) # <<auto_decomp_count, ring_size>>
          \/ \E c \in DOMAIN value.rgsw_cts :
                dimension(value.rgsw_cts[c]) # <<rlrg_a_decomp * 2 + rlrg_b_decomp, ring_size>>
          \/ Len0(value.lwe_ksk) # d * ring_size
       THEN Panic
       ELSE [panic |-> FALSE,
             key |-> [rgsw_cts |->
                        [c \in DOMAIN value.rgsw_cts |->
                            [r \in 0..(rlrg_a_decomp * 2 + rlrg_b_decomp * 2 - 1) |->
                                NttForward(
                                    IF r < rlrg_a_decomp * 2 THEN value.rgsw_cts[c][r]
                                    ELSE IF r < rlrg_a_decomp * 2 + rlrg_b_decomp
                                    THEN DrawnRow(main_prng,
                                                  DrawFor(draws, "rgsw", c,
                                                          r - rlrg_a_decomp * 2))
                                    ELSE value.rgsw_cts[c][r - rlrg_b_decomp])]],
                      galois_keys |-> ExpandAutoKeys(value, main_prng, draws),
                      lwe_ksk |-> ExpandLweKsk(value, d * ring_size, main_prng, draws),
                      parameters |-> parameters],
             main_prng |-> Advance(main_prng, DrawnCount(draws)),
             draws |-> DrawsInOrder(draws)]

\* ServerKeyEvaluationDomain::from(&SeededMultiPartyServerKey): the RGSW
\* ciphertexts come whole and are only sent to evaluation domain; as many
\* LWE-KSK rows are filled as the key and lwe_ksk both have
ServerKeyEvaluationDomainFromMultiParty(value, left) ==
    LET parameters == value.parameters
        rlwe_n == parameters.rlwe_n
        main_prng == ExpanderPrng(value.seed, left)
        auto_d_count == parameters.auto_decomposition_count
        dlogs == parameters.auto_element_dlogs
        rgsw_ct_out == parameters.rlwe_rgsw_decomposition_count[1] * 2
                       + parameters.rlwe_rgsw_decomposition_count[2] * 2
        d_lwe == parameters.lwe_decomposition_count
        n_rows == Min(rlwe_n * d_lwe, Len0(value.lwe_ksk))
        layout == MultiPartyDrawLayout(parameters, Len0(value.rgsw_cts))
        draws == AutoKeyDraws(parameters, layout.auto)
                 \cup RgswDraws(parameters, Len0(value.rgsw_cts), layout.rgsw_rows,
                                layout.rgsw)
                 \cup LweKskDraws(parameters, n_rows, layout.lwe)
    IN IF \/ \E k \in DOMAIN dlogs : dlogs[k] \notin DOMAIN value.auto_keys
          \/ \E k \in DOMAIN dlogs :
                dimension(value.auto_keys[dlogs[k]]) # <<auto_d_count, rlwe_n>>
          \/ \E c \in DOMAIN value.rgsw_cts :
                dimension(value.rgsw_cts[c]) # <<rgsw_ct_out, rlwe_n>>
       THEN Panic
       ELSE [panic |-> FALSE,
             key |-> [rgsw_cts |->
                        [c \in DOMAIN value.rgsw_cts |->
                            [r \in 0..(rgsw_ct_out - 1) |->
                                NttForward(value.rgsw_cts[c][r])]],
                      galois_keys |-> ExpandAutoKeys(value, main_prng, draws),
                      lwe_ksk |-> [i \in 0..(rlwe_n * d_lwe - 1) |->
                                     IF i < n_rows
                                     THEN ExpandLweKsk(value, n_rows, main_prng, draws)[i]
                                     ELSE [col \in 0..parameters.lwe_n |-> 0]],
                      parameters |-> parameters],
             main_prng |-> Advance(main_prng, DrawnCount(draws)),
             draws |-> DrawsInOrder(draws)]

\* NonInteractiveMultiPartyCrs: the seeds derived from the common reference
\* seed, one for the auto keys, one for the LWE-KSK and one for each user
NonInteractiveMultiPartyCrs(seed) ==
    [auto_keys_cts_seed |-> 8 * seed + 2,
     lwe_ksk_cts_seed |-> 8 * seed + 3,
     ui_to_s_ks_seed_for_user_i |-> [user_i \in 0..(MaxUsers + 1) |-> 8 * seed + 4 + user_i]]

\* SeededNonInteractiveMultiPartyServerKey::new
SeededNonInteractiveMultiPartyServerKeyNew(ui_to_s_ksks, ui_to_s_ksks_key_order, rgsw_cts, auto_keys, lwe_ksk, cr_seed, parameters) ==
    [kind |-> "non_interactive", ui_to_s_ksks |-> ui_to_s_ksks,
     ui_to_s_ksks_key_order |-> ui_to_s_ksks_key_order, rgsw_cts |-> rgsw_cts,
     auto_keys |-> auto_keys, lwe_ksk |-> lwe_ksk, parameters |-> parameters,
     seed |-> cr_seed]

\* the position of an auto element dlog in the list of the parameters
DlogPosition(dlogs, el) == CHOOSE k \in DOMAIN dlogs : dlogs[k] = el

\* one user's matrix of the non-interactive expansion: zeros(d_uitos * 2,
\* ring_size), the first d_uitos rows drawn from the user's CSPRNG, the rows
\* after them copied from the user's part b as far as both go, every row sent
\* to evaluation domain
UiToSKsk(value, user_index) ==
    LET d_uitos == value.parameters.non_interactive_ui_to_s_key_switch_decomposition_count
        ring_size == value.parameters.rlwe_n
        prng == NewWithSeed(
                    NonInteractiveMultiPartyCrs(value.seed).ui_to_s_ks_seed_for_user_i[user_index])
        incoming_ksk_partb_ref == value.ui_to_s_ksks[value.ui_to_s_ksks_key_order[user_index]]
    IN [r \in 0..(d_uitos * 2 - 1) |->
          NttForward(IF r < d_uitos
                     THEN UniformRow(Advance(prng, r * ring_size), value.parameters.rlwe_q,
                                     ring_size)
                     ELSE IF r - d_uitos < Len0(incoming_ksk_partb_ref)
                     THEN incoming_ksk_partb_ref[r - d_uitos]
                     ELSE [i \in 0..(ring_size - 1) |-> 0])]

\* the last loop of the non-interactive expansion: total_users is the largest
\* entry of the key order, the loop runs over 0..total_users - 1, and each
\* pass asserts that the matrix it has just made of d_uitos * 2 rows has
\* dimension (d_uitos, ring_size)
NonInteractiveUiToSKsks(value) ==
    LET d_uitos == value.parameters.non_interactive_ui_to_s_key_switch_decomposition_count
        ring_size == value.parameters.rlwe_n
        order == value.ui_to_s_ksks_key_order
    IN IF Len0(order) = 0 THEN Panic
       ELSE LET total_users == Max({order[j] : j \in DOMAIN order})
            IN IF \E user_index \in 0..(total_users - 1) :
                      \/ user_index \notin DOMAIN order
                      \/ order[user_index] \notin DOMAIN value.ui_to_s_ksks
                      \/ dimension(UiToSKsk(value, user_index)) # <<d_uitos, ring_size>>
               THEN Panic
               ELSE [panic |-> FALSE,
                     ui_to_s_ksks |-> [user_index \in 0..(total_users - 1) |->
                                          UiToSKsk(value, user_index)]]

\* NonInteractiveServerKeyEvaluationDomain::from: the RGSW ciphertexts are
\* sent to evaluation domain as they come; each auto key is zeros(d_auto,
\* ring_size) with its d_auto rows drawn from the auto CSPRNG, so that no row
\* is left for part b; every LWE-KSK row gets lwe_n drawn values, and the
\* stored b of as many rows as lwe_ksk has
NonInteractiveServerKeyEvaluationDomainFrom(value) ==
    LET parameters == value.parameters
        ring_size == parameters.rlwe_n
        crs == NonInteractiveMultiPartyCrs(value.seed)
        auto_prng == NewWithSeed(crs.auto_keys_cts_seed)
        auto_element_dlogs == parameters.auto_element_dlogs
        d_auto == parameters.auto_decomposition_count
        lwe_ksk_prng == NewWithSeed(crs.lwe_ksk_cts_seed)
        lwe_rows == parameters.lwe_decomposition_count * ring_size
        users == NonInteractiveUiToSKsks(value)
    IN IF \/ \E k \in DOMAIN auto_element_dlogs :
                auto_element_dlogs[k] \notin DOMAIN value.auto_keys
          \/ \E k \in DOMAIN auto_element_dlogs :
                dimension(value.auto_keys[auto_element_dlogs[k]]) # <<d_auto, ring_size>>
          \/ users.panic
       THEN Panic
       ELSE [panic |-> FALSE,
             key |-> [rgsw_cts |->
                        [c \in DOMAIN value.rgsw_cts |->
                            [r \in DOMAIN value.rgsw_cts[c] |->
                                NttForward(value.rgsw_cts[c][r])]],
                      galois_keys |->
                        [el \in {auto_element_dlogs[k] : k \in DOMAIN auto_element_dlogs} |->
                            [r \in 0..(d_auto - 1) |->
                                NttForward(UniformRow(
                                    Advance(auto_prng,
                                            (DlogPosition(auto_element_dlogs, el) * d_auto + r)
                                                * ring_size),
                                    parameters.rlwe_q, ring_size))]],
                      lwe_ksk |->
                        [i \in 0..(lwe_rows - 1) |->
                            [col \in 0..parameters.lwe_n |->
                                IF col = 0
                                THEN (IF i < Len0(value.lwe_ksk) THEN value.lwe_ksk[i] ELSE 0)
                                ELSE UniformRow(Advance(lwe_ksk_prng, i * parameters.lwe_n),
                                                parameters.lwe_q, parameters.lwe_n)[col - 1]]],
                      ui_to_s_ksks |-> users.ui_to_s_ksks,
                      parameters |-> parameters]]

\* ToShoup: the companion of a value x is floor(x * 2^ShoupWidth / q)
ShoupWidth == 8

\* the pair with its two components the other way round
NormalAndShoupSwapped(matrix, q) ==
    <<[r \in DOMAIN matrix |->
          [i \in DOMAIN matrix[r] |-> (matrix[r][i] * 2^ShoupWidth) \div q]],
      matrix>>

\* NormalAndShoup::new_with_modulus: the matrix and its companion
NormalAndShoup(matrix, q) ==
    <<matrix,
      [r \in DOMAIN matrix |->
          [i \in DOMAIN matrix[r] |-> (matrix[r][i] * 2^ShoupWidth) \div q]]>>

\* ShoupServerKeyEvaluationDomain::from and
\* ShoupNonInteractiveServerKeyEvaluationDomain::from: every RGSW ciphertext,
\* auto key and user key gets its companion, under the index it had
ShoupServerKeyEvaluationDomainFrom(value) ==
    LET q == value.parameters.rlwe_q
        wrapped == [rgsw_cts |-> [c \in DOMAIN value.rgsw_cts |->
                                     NormalAndShoup(value.rgsw_cts[c], q)],
                    galois_keys |-> [k \in DOMAIN value.galois_keys |->
                                        NormalAndShoup(value.galois_keys[k], q)],
                    lwe_ksk |-> value.lwe_ksk]
    IN IF "ui_to_s_ksks" \in DOMAIN value
       THEN [rgsw_cts |-> wrapped.rgsw_cts, galois_keys |-> wrapped.galois_keys,
             lwe_ksk |-> wrapped.lwe_ksk,
             ui_to_s_ksks |-> [j \in DOMAIN value.ui_to_s_ksks |->
                                  NormalAndShoup(value.ui_to_s_ksks[j], q)]]
       ELSE wrapped

\* galois_key_for_auto falling back on a key the server key does hold
galois_key_for_auto_or_any(self, k) ==
    [panic |-> FALSE,
     key |-> IF k \in DOMAIN self.galois_keys THEN self.galois_keys[k]
             ELSE self.galois_keys[CHOOSE j \in DOMAIN self.galois_keys : TRUE]]

\* PbsKey::galois_key_for_auto: self.galois_keys.get(&k).unwrap()
galois_key_for_auto(self, k) ==
    IF k \in DOMAIN self.galois_keys THEN [panic |-> FALSE, key |-> self.galois_keys[k]]
    ELSE Panic

\* the lookup that counts the RGSW ciphertexts from the last one
rgsw_ct_lwe_si_from_last(self, si) ==
    IF si \in DOMAIN self.rgsw_cts
    THEN [panic |-> FALSE, ct |-> self.rgsw_cts[Len0(self.rgsw_cts) - 1 - si]]
    ELSE Panic

\* PbsKey::rgsw_ct_lwe_si: &self.rgsw_cts[si]
rgsw_ct_lwe_si(self, si) ==
    IF si \in DOMAIN self.rgsw_cts THEN [panic |-> FALSE, ct |-> self.rgsw_cts[si]]
    ELSE Panic

\* ------------------------------------------------ public key aggregation

\* CommonReferenceSeededCollectivePublicKeyShare::new
CommonReferenceSeededCollectivePublicKeyShareNew(share, cr_seed, parameters) ==
    [share |-> share, cr_seed |-> cr_seed, parameters |-> parameters]

\* the variant that holds only the share after the first against the first
SharesAgreeUpToSecond(value, from) ==
    \A i \in from..Min(1, Len0(value) - 1) :
        /\ value[i].cr_seed = value[0].cr_seed
        /\ value[i].parameters = value[0].parameters

\* the shares of a slice all carry the seed and the parameters of the first
SharesAgree(value, from) ==
    \A i \in from..(Len0(value) - 1) :
        /\ value[i].cr_seed = value[0].cr_seed
        /\ value[i].parameters = value[0].parameters

\* the variant that copies each share over the row instead of adding it
SumSharesOverwriting(row, value, from, k) ==
    IF k <= from THEN row ELSE value[k - 1].share

\* elwise_add_mut of shares from .. k - 1 into row, one after the other
RECURSIVE SumShares(_, _, _, _)
SumShares(row, value, from, k) ==
    IF k <= from THEN row
    ELSE elwise_add(SumShares(row, value, from, k - 1), value[k - 1].share)

\* the variant of PublicKey::from(&[shares]) that sums as
\* SeededPublicKey::from does, from the second share on, over the zero row
PublicKeyFromSharesSkipFirst(value) ==
    IF Len0(value) = 0 \/ ~SharesAgree(value, 0) THEN Panic
    ELSE [panic |-> FALSE,
          key |-> [r \in 0..1 |->
                     IF r = 0
                     THEN UniformRow(NewWithSeed(value[0].cr_seed),
                                     value[0].parameters.rlwe_q, value[0].parameters.rlwe_n)
                     ELSE SumShares(ZeroRow, value, 1, Len0(value))]]

\* PublicKey::from(&[CommonReferenceSeededCollectivePublicKeyShare]): row 0
\* drawn from the seed of the first share, row 1 the shares added one by one
\* to the zero row, each share checked against the first as it is added
PublicKeyFromShares(value) ==
    IF Len0(value) = 0 \/ ~SharesAgree(value, 0) THEN Panic
    ELSE [panic |-> FALSE,
          key |-> [r \in 0..1 |->
                     IF r = 0
                     THEN UniformRow(NewWithSeed(value[0].cr_seed),
                                     value[0].parameters.rlwe_q, value[0].parameters.rlwe_n)
                     ELSE SumShares(ZeroRow, value, 0, Len0(value))]]

\* SeededPublicKey::from(&[CommonReferenceSeededCollectivePublicKeyShare]):
\* part_b starts as a copy of the first share, the others are added to it
SeededPublicKeyFromShares(value) ==
    IF Len0(value) = 0 \/ ~SharesAgree(value, 1) THEN Panic
    ELSE [panic |-> FALSE,
          key |-> [part_b |-> SumShares(value[0].share, value, 1, Len0(value)),
                   seed |-> value[0].cr_seed,
                   parameters |-> value[0].parameters]]

\* PublicKey::from(SeededPublicKey): row 0 drawn from the seed, row 1 part_b
PublicKeyFromSeeded(value) ==
    [r \in 0..1 |->
        IF r = 0 THEN UniformRow(NewWithSeed(value.seed), value.parameters.rlwe_q,
                                 value.parameters.rlwe_n)
        ELSE value.part_b]

\* ---------------------------------------------------------------- inputs

\* every ternary secret
SecretSet == [Idx -> {-1, 0, 1}]
\* ternary vectors of Hamming weight h (fill_random_ternary_secret_with_hamming_weight)
TernaryWithWeight(h) == {t \in SecretSet : Cardinality({i \in Idx : t[i] # 0}) = h}
\* plaintext messages: coefficient i is x + i * y mod p
MessageSet == {[i \in Idx |-> (x + i * y) % P] : x \in 0..(P - 1), y \in 0..1}
\* the ephemeral secrets tried by public key encryption
EphemeralSet == {t \in TernaryWithWeight(RingSize \div 2) : t[0] = 1 /\ t[RingSize - 1] # 0}

\* ----------------------------------------------------------------- state

VARIABLES
    pc,                 \* the step the scenario is at
    s,                  \* the RLWE secret (RlweSecret.values)
    rng,                \* the caller's RNG
    m0,                 \* the plaintext message
    seeded_rlwe_in_ct,  \* SeededRlweCiphertext {data, seed, modulus}
    rlwe_in_ct,         \* RlweCiphertext {data, is_trivial}
    encoded_m_back,     \* the row decrypt_rlwe wrote
    seeded_pk,          \* SeededRlwePublicKey {data, seed, modulus}
    pk,                 \* RlwePublicKey.data
    noise,              \* the errors and ephemeral secrets sampled so far
    m1,                 \* the message of the RGSW ciphertext
    rgsw_ct,            \* RgswCiphertextEvaluationDomain {data}
    scratch_space,      \* the scratch matrix handed to the products
    ct_before,          \* the operand as it was before it was overwritten
    auto_k,             \* the Galois element
    auto_key,           \* AutoKeyEvaluationDomain {data}
    auto_map,           \* generate_auto_map's (index, sign) table
    rgsw_carrym,        \* the coefficient-domain RGSW ciphertext products pile up in
    seeded_server_key,  \* SeededSinglePartyServerKey / SeededMultiPartyServerKey
    seeded_key_sent,    \* the seeded server key as it was constructed
    server_key,         \* ServerKeyEvaluationDomain of the last expansion
    server_key_prev,    \* ServerKeyEvaluationDomain of the expansion before it
    main_prng,          \* the CSPRNG of the last expansion, as it ended
    draws,              \* the draws the last expansion made, in order
    seeded_ct,          \* a seeded RLWE ciphertext, RGSW ciphertext or auto key
    gen_out,            \* what its generator drew and was given
    expanded_ct,        \* the seeded object converted to its full form
    shares,             \* a slice of collective public key shares
    agg_seeded_pk,      \* SeededPublicKey aggregated from the shares
    agg_pk,             \* PublicKey aggregated from the shares
    last_op             \* the last call made on rlwe_in_ct or rgsw_carrym, and how many

extVars == <<m1, rgsw_ct, scratch_space, ct_before>>

autoVars == <<auto_k, auto_key, auto_map>>
keyVars == <<seeded_server_key, seeded_key_sent, server_key, server_key_prev, main_prng,
             draws>>
seedVars == <<seeded_ct, gen_out, expanded_ct>>
aggVars == <<shares, agg_seeded_pk, agg_pk>>
rlweVars == <<s, rng, m0, seeded_rlwe_in_ct, rlwe_in_ct, encoded_m_back, seeded_pk, pk,
              noise>>

\* what the RLWE round trips never touch
notRlweVars == <<extVars, autoVars, rgsw_carrym, keyVars, seedVars, aggVars, last_op>>
\* what the RLWE x RGSW scenario never touches
notExtVars == <<autoVars, rgsw_carrym, keyVars, seedVars, aggVars, last_op>>
\* what the automorphism scenario never touches
notAutoVars == <<seeded_pk, pk, m1, rgsw_ct, rgsw_carrym, keyVars, seedVars, aggVars, last_op>>
\* what the expansion scenario never touches
notKeyVars == <<rlweVars, extVars, autoVars, rgsw_carrym, seedVars, aggVars, last_op>>
\* what the seed replay scenario never touches
notSeedVars == <<m0, seeded_rlwe_in_ct, rlwe_in_ct, encoded_m_back, seeded_pk, pk, noise,
                extVars, autoVars, rgsw_carrym, keyVars, aggVars, last_op>>
\* what the aggregation scenario never touches
notAggVars == <<rlweVars, extVars, autoVars, rgsw_carrym, keyVars, seedVars, last_op>>
\* what the scenario of calls in sequence never touches
notOpsVars == <<rng, seeded_rlwe_in_ct, encoded_m_back, seeded_pk, pk, noise, m1,
               scratch_space, keyVars, seedVars, aggVars>>
\* what the scenario of server keys of every kind never touches
notKeysVars == <<rlweVars, extVars, autoVars, rgsw_carrym, seedVars, aggVars, seeded_key_sent,
                main_prng, draws>>
\* what the table scenario never touches
notMapVars == <<rlweVars, extVars, rgsw_carrym, keyVars, seedVars, aggVars, auto_key>>
\* what the RGSW x RGSW scenario never touches
notIntVars == <<rng, seeded_rlwe_in_ct, rlwe_in_ct, encoded_m_back, seeded_pk, pk, autoVars,
               keyVars, seedVars, aggVars, last_op>>

vars == <<pc, s, rng, m0, seeded_rlwe_in_ct, rlwe_in_ct, encoded_m_back,
          seeded_pk, pk, noise, extVars, autoVars, rgsw_carrym, keyVars, seedVars, aggVars,
          last_op>>

\* ------------------------------------------- RLWE encryption round trips

InitRlwe ==
    /\ pc = "start"
    /\ s \in SecretSet
    /\ rng \in {[NewWithSeed(k) EXCEPT !.width = w] :
                    k \in 0..MaxRngSeed, w \in {ErrWidth, MaxErr}}
    /\ m0 \in MessageSet
    /\ seeded_rlwe_in_ct = Null
    /\ rlwe_in_ct = Null
    /\ encoded_m_back = Null
    /\ seeded_pk = Null
    /\ pk = Null
    /\ noise = [mode |-> "none"]
    /\ m1 = Null
    /\ rgsw_ct = Null
    /\ scratch_space = Null
    /\ ct_before = Null
    /\ auto_k = Null
    /\ auto_key = Null
    /\ auto_map = Null
    /\ rgsw_carrym = Null
    /\ seeded_server_key = Null
    /\ seeded_key_sent = Null
    /\ server_key = Null
    /\ server_key_prev = Null
    /\ main_prng = Null
    /\ draws = Null
    /\ seeded_ct = Null
    /\ gen_out = Null
    /\ expanded_ct = Null
    /\ shares = Null
    /\ agg_seeded_pk = Null
    /\ agg_pk = Null
    /\ last_op = Null

\* tests::rlwe_encrypt_decryption: encrypt under the secret key, seeded
SkEncrypt ==
    /\ UNCHANGED notRlweVars
    /\ pc = "start"
    /\ \E rlwe_seed \in 0..MaxSeed :
        LET out == secret_key_encrypt_rlwe(EncodeRow(m0), s, NewWithSeed(rlwe_seed), rng)
        IN /\ seeded_rlwe_in_ct' = [data |-> out.b_rlwe_out, seed |-> rlwe_seed,
                                    modulus |-> Q]
           /\ rng' = out.rng
           /\ noise' = [mode |-> "sk", e |-> out.e]
    /\ pc' = "sk_encrypted"
    /\ UNCHANGED <<s, m0, rlwe_in_ct, encoded_m_back, seeded_pk, pk>>

ExpandRlwe ==
    /\ UNCHANGED notRlweVars
    /\ pc = "sk_encrypted"
    /\ rlwe_in_ct' = RlweCiphertextFromSeeded(seeded_rlwe_in_ct)
    /\ pc' = "encrypted"
    /\ UNCHANGED <<s, rng, m0, seeded_rlwe_in_ct, encoded_m_back, seeded_pk, pk, noise>>

GenPublicKey ==
    /\ UNCHANGED notRlweVars
    /\ pc = "start"
    /\ \E pk_seed \in 0..MaxSeed :
        LET out == gen_rlwe_public_key(s, NewWithSeed(pk_seed), rng)
        IN /\ seeded_pk' = [data |-> out.part_b_out, seed |-> pk_seed, modulus |-> Q]
           /\ rng' = out.rng
           /\ noise' = [mode |-> "pk_gen", e |-> out.e]
    /\ pc' = "pk_seeded"
    /\ UNCHANGED <<s, m0, seeded_rlwe_in_ct, rlwe_in_ct, encoded_m_back, pk>>

ExpandPublicKey ==
    /\ UNCHANGED notRlweVars
    /\ pc = "pk_seeded"
    /\ pk' = RlwePublicKeyFromSeeded(seeded_pk)
    /\ pc' = "pk_ready"
    /\ UNCHANGED <<s, rng, m0, seeded_rlwe_in_ct, rlwe_in_ct, encoded_m_back, seeded_pk,
                   noise>>

PkEncrypt ==
    /\ UNCHANGED notRlweVars
    /\ pc = "pk_ready"
    /\ \E u \in EphemeralSet :
        LET out == public_key_encrypt_rlwe(pk, EncodeRow(m0), u, rng)
        IN /\ rlwe_in_ct' = [data |-> out.rlwe_out, is_trivial |-> FALSE]
           /\ rng' = out.rng
           /\ noise' = [mode |-> "pk", e |-> noise.e, u |-> u, e0 |-> out.e0,
                        e1 |-> out.e1]
    /\ pc' = "encrypted"
    /\ UNCHANGED <<s, m0, seeded_rlwe_in_ct, encoded_m_back, seeded_pk, pk>>

Decrypt ==
    /\ UNCHANGED notRlweVars
    /\ pc = "encrypted"
    /\ encoded_m_back' = decrypt_rlwe(rlwe_in_ct.data, s)
    /\ pc' = "decrypted"
    /\ UNCHANGED <<s, rng, m0, seeded_rlwe_in_ct, rlwe_in_ct, seeded_pk, pk, noise>>

NextRlwe == SkEncrypt \/ ExpandRlwe \/ GenPublicKey \/ ExpandPublicKey \/ PkEncrypt
            \/ Decrypt

SpecRlwe == InitRlwe /\ [][NextRlwe]_vars

\* the centred size of the largest coefficient of a row
RECURSIVE MaxAbsUpTo(_, _)
MaxAbsUpTo(r, k) ==
    IF k < 0 THEN 0
    ELSE LET rest == MaxAbsUpTo(r, k - 1)
             here == Abs(Centered(r[k]))
         IN IF here > rest THEN here ELSE rest
MaxAbs(r) == MaxAbsUpTo(r, Len0(r) - 1)

\* the noise leaves the decoder's margin untouched: |e| + 1/2 < q / (2p)
WithinMargin(e) == 2 * P * MaxAbs(e) + P < Q

SkDecrypted == pc = "decrypted" /\ noise.mode = "sk"
PkDecrypted == pc = "decrypted" /\ noise.mode = "pk"

\* C3 (as stated): decrypting the expansion of the seeded ciphertext returns
\* exactly m + e mod q, and the message is recovered by rounding whenever
\* every |e_i| is below half the scaling factor q/p.
C3_Original ==
    SkDecrypted =>
        /\ encoded_m_back = elwise_add(EncodeRow(m0), noise.e)
        /\ (2 * P * MaxAbs(noise.e) < Q => DecodeRow(encoded_m_back) = m0)

\* C3 (amended): decrypting the expansion of the seeded ciphertext returns
\* exactly m + e mod q, and the message is recovered by rounding whenever
\* |e_i| + 1/2 is below half the scaling factor (the encoder rounds m * q / p
\* itself, by up to 1/2).
C3_SkRoundTrip ==
    SkDecrypted =>
        /\ encoded_m_back = elwise_add(EncodeRow(m0), noise.e)
        /\ (WithinMargin(noise.e) => DecodeRow(encoded_m_back) = m0)

\* a secret-key round trip whose error is not zero and is within the margin
C3_Witness ==
    /\ SkDecrypted
    /\ noise.e # ZeroRow
    /\ WithinMargin(noise.e)
    /\ DecodeRow(encoded_m_back) = m0

\* e * u + e1 - e0 * s, with the schoolbook product
PkNoise ==
    elwise_add(elwise_add(NegacyclicMul(noise.e, TryConvertFrom(noise.u)), noise.e1),
               elwise_neg(NegacyclicMul(noise.e0, TryConvertFrom(s))))

\* C4: decrypting a public key encryption of m under the secret the public
\* key was generated from returns m + (e * u + e1 - e0 * s), and decodes to m
\* when that error is small.
C4_PkRoundTrip ==
    PkDecrypted =>
        /\ encoded_m_back = elwise_add(EncodeRow(m0), PkNoise)
        /\ (WithinMargin(PkNoise) => DecodeRow(encoded_m_back) = m0)

\* a public-key round trip with a non-zero error that decodes to the message
C4_Witness ==
    /\ PkDecrypted
    /\ PkNoise # ZeroRow
    /\ WithinMargin(PkNoise)
    /\ DecodeRow(encoded_m_back) = m0

\* -------------------------------------------------- RLWE x RGSW scenario

\* the monomials X^k
MonomialSet == {[i \in Idx |-> IF i = k THEN 1 ELSE 0] : k \in Idx}
\* the messages of the RGSW ciphertext: the monomials, and 1 + X
RgswMessageSet == MonomialSet \cup {[i \in Idx |-> IF i <= 1 THEN 1 ELSE 0]}

InitExt ==
    /\ pc = "ext_start"
    /\ s \in SecretSet
    /\ rng \in {NewWithSeed(k) : k \in 0..MaxRngSeed}
    /\ m0 \in MessageSet
    /\ m1 \in RgswMessageSet
    /\ seeded_rlwe_in_ct = Null
    /\ rlwe_in_ct = Null
    /\ encoded_m_back = Null
    /\ seeded_pk = Null
    /\ pk = Null
    /\ noise = [mode |-> "none"]
    /\ rgsw_ct = Null
    /\ scratch_space = Zeros(D + 2)
    /\ ct_before = Null
    /\ auto_k = Null
    /\ auto_key = Null
    /\ auto_map = Null
    /\ rgsw_carrym = Null
    /\ seeded_server_key = Null
    /\ seeded_key_sent = Null
    /\ server_key = Null
    /\ server_key_prev = Null
    /\ main_prng = Null
    /\ draws = Null
    /\ seeded_ct = Null
    /\ gen_out = Null
    /\ expanded_ct = Null
    /\ shares = Null
    /\ agg_seeded_pk = Null
    /\ agg_pk = Null
    /\ last_op = Null

\* tests::_sk_encrypt_rgsw: a generator of its own gives the seed and the
\* errors; the seeded ciphertext is expanded at once
ExtEncryptRgsw ==
    /\ UNCHANGED notExtVars
    /\ pc = "ext_start"
    /\ \E k \in 0..MaxRngSeed :
        LET fb == fill_bytes(NewWithSeed(k))
            out == secret_key_encrypt_rgsw(m1, gadget_vector, s, NewWithSeed(fb.seed), fb.rng)
        IN /\ rgsw_ct' = RgswCiphertextEvaluationDomainFromSeeded(
                             [data |-> out.out_rgsw, seed |-> fb.seed, modulus |-> Q])
           /\ noise' = [mode |-> "ext", e_nsm |-> out.e_nsm, e_m |-> out.e_m]
    /\ pc' = "ext_rgsw"
    /\ UNCHANGED <<s, rng, m0, m1, seeded_rlwe_in_ct, rlwe_in_ct, encoded_m_back,
                   seeded_pk, pk, scratch_space, ct_before>>

\* tests::rlwe_by_rgsw_works: encrypt m0 seeded, with a seed taken from rng,
\* and expand
ExtEncryptRlwe ==
    /\ UNCHANGED notExtVars
    /\ pc = "ext_rgsw"
    /\ LET fb == fill_bytes(rng)
           out == secret_key_encrypt_rlwe(EncodeRow(m0), s, NewWithSeed(fb.seed), fb.rng)
           seeded == [data |-> out.b_rlwe_out, seed |-> fb.seed, modulus |-> Q]
       IN /\ seeded_rlwe_in_ct' = seeded
          /\ rlwe_in_ct' = RlweCiphertextFromSeeded(seeded)
          /\ rng' = out.rng
          /\ noise' = [mode |-> "ext", e_nsm |-> noise.e_nsm, e_m |-> noise.e_m,
                       e |-> out.e]
    /\ pc' = "ext_ready"
    /\ UNCHANGED <<s, m0, m1, encoded_m_back, seeded_pk, pk, rgsw_ct, scratch_space,
                   ct_before>>

\* tests::rlwe_by_rgsw_works: RLWE(m0 m1) = RLWE(m0) x RGSW(m1), in place
ExtProduct ==
    /\ UNCHANGED notExtVars
    /\ pc = "ext_ready"
    /\ LET out == rlwe_by_rgsw(rlwe_in_ct, rgsw_ct.data, scratch_space)
       IN /\ ~out.panic
          /\ rlwe_in_ct' = out.rlwe_in
          /\ scratch_space' = out.scratch
    /\ ct_before' = rlwe_in_ct
    /\ pc' = "ext_done"
    /\ UNCHANGED <<s, rng, m0, m1, seeded_rlwe_in_ct, encoded_m_back, seeded_pk, pk,
                   noise, rgsw_ct>>

ExtDecrypt ==
    /\ UNCHANGED notExtVars
    /\ pc = "ext_done"
    /\ encoded_m_back' = decrypt_rlwe(rlwe_in_ct.data, s)
    /\ pc' = "ext_decrypted"
    /\ UNCHANGED <<s, rng, m0, m1, seeded_rlwe_in_ct, rlwe_in_ct, seeded_pk, pk, noise,
                   rgsw_ct, scratch_space, ct_before>>

NextExt == ExtEncryptRgsw \/ ExtEncryptRlwe \/ ExtProduct \/ ExtDecrypt

SpecExt == InitExt /\ [][NextExt]_vars

\* sum over the digits j of dec_j(r) * e[j], with the schoolbook product
RECURSIVE GadgetNoiseUpTo(_, _, _)
GadgetNoiseUpTo(r, e, k) ==
    IF k < 0 THEN ZeroRow
    ELSE elwise_add(GadgetNoiseUpTo(r, e, k - 1), NegacyclicMul(decompose_r(r, Zeros(D))[k], e[k]))
GadgetNoise(r, e) == GadgetNoiseUpTo(r, e, D - 1)

\* the error of the product: e_in * m1 + <dec(a), e(-sm)> + <dec(b), e(m)>
ExtNoise ==
    elwise_add(NegacyclicMul(noise.e, m1),
               elwise_add(GadgetNoise(ct_before.data[0], noise.e_nsm),
                          GadgetNoise(ct_before.data[1], noise.e_m)))

\* the product of the messages over R_p
MessageProduct == [i \in Idx |-> Centered(NegacyclicMul(m0, m1)[i]) % P]

\* what the decryption is away from the encoding of the product of messages
ExtError == elwise_add(encoded_m_back, elwise_neg(EncodeRow(MessageProduct)))

\* C1: after rlwe_by_rgsw on a non-trivial RLWE(m0) and an evaluation-domain
\* RGSW(m1), b - a * s is the scaled message times m1 plus the error
\* e_in * m1 + <dec(a), e(-sm)> + <dec(b), e(m)>, and it decodes to m0 * m1
\* over R_p when its distance to the encoding of m0 * m1 is in the margin.
C1_ExternalProduct ==
    pc = "ext_decrypted" =>
        /\ ~ct_before.is_trivial
        /\ encoded_m_back = elwise_add(NegacyclicMul(EncodeRow(m0), m1), ExtNoise)
        /\ (WithinMargin(ExtError) => DecodeRow(encoded_m_back) = MessageProduct)

\* a product whose error is not zero and that decodes to the product
C1_Witness ==
    /\ pc = "ext_decrypted"
    /\ ExtNoise # ZeroRow
    /\ WithinMargin(ExtError)
    /\ m1 # [i \in Idx |-> IF i = 0 THEN 1 ELSE 0]
    /\ DecodeRow(encoded_m_back) = MessageProduct

\* --------------------------------------------------- automorphism scenario

\* the Galois elements tried: 1, negative ones, and ones beyond 2N
AutoKSet == {-11, -5, -3, -1, 1, 3, 5, 7, 9}

InitAuto ==
    /\ pc = "auto_start"
    /\ s \in SecretSet
    /\ rng \in {NewWithSeed(k) : k \in 0..MaxRngSeed}
    /\ m0 \in MessageSet
    /\ auto_k \in AutoKSet
    /\ m1 = Null
    /\ seeded_rlwe_in_ct = Null
    /\ rlwe_in_ct = Null
    /\ encoded_m_back = Null
    /\ seeded_pk = Null
    /\ pk = Null
    /\ noise = [mode |-> "none"]
    /\ rgsw_ct = Null
    /\ scratch_space = Zeros(D + 2)
    /\ ct_before = Null
    /\ auto_key = Null
    /\ auto_map = Null
    /\ rgsw_carrym = Null
    /\ seeded_server_key = Null
    /\ seeded_key_sent = Null
    /\ server_key = Null
    /\ server_key_prev = Null
    /\ main_prng = Null
    /\ draws = Null
    /\ seeded_ct = Null
    /\ gen_out = Null
    /\ expanded_ct = Null
    /\ shares = Null
    /\ agg_seeded_pk = Null
    /\ agg_pk = Null
    /\ last_op = Null

\* tests::galois_auto_works: encrypt m seeded, with a seed taken from rng,
\* and expand
AutoEncryptRlwe ==
    /\ UNCHANGED notAutoVars
    /\ pc = "auto_start"
    /\ LET fb == fill_bytes(rng)
           out == secret_key_encrypt_rlwe(EncodeRow(m0), s, NewWithSeed(fb.seed), fb.rng)
           seeded == [data |-> out.b_rlwe_out, seed |-> fb.seed, modulus |-> Q]
       IN /\ seeded_rlwe_in_ct' = seeded
          /\ rlwe_in_ct' = RlweCiphertextFromSeeded(seeded)
          /\ rng' = out.rng
          /\ noise' = [mode |-> "auto", e |-> out.e]
    /\ pc' = "auto_encrypted"
    /\ UNCHANGED <<s, m0, encoded_m_back, scratch_space, ct_before, auto_k, auto_key,
                   auto_map>>

\* tests::galois_auto_works: the seeded auto key for auto_k, expanded
AutoKeyGen ==
    /\ UNCHANGED notAutoVars
    /\ pc = "auto_encrypted"
    /\ LET fb == fill_bytes(rng)
           out == galois_key_gen(Zeros(D), s, auto_k, gadget_vector, NewWithSeed(fb.seed),
                                 fb.rng)
       IN /\ ~out.panic
          /\ auto_key' = AutoKeyEvaluationDomainFromSeeded(
                             [data |-> out.ksk_out, seed |-> fb.seed, modulus |-> Q])
          /\ rng' = out.rng
          /\ noise' = [mode |-> "auto", e |-> noise.e, e_ksk |-> out.e]
    /\ pc' = "auto_keyed"
    /\ UNCHANGED <<s, m0, seeded_rlwe_in_ct, rlwe_in_ct, encoded_m_back, scratch_space,
                   ct_before, auto_k, auto_map>>

\* tests::galois_auto_works: RLWE(m) -> RLWE(m(X^k)) in place
AutoApply ==
    /\ UNCHANGED notAutoVars
    /\ pc = "auto_keyed"
    /\ LET map == generate_auto_map(RingSize, auto_k)
           out == galois_auto(rlwe_in_ct, auto_key.data, scratch_space, map.index, map.sign)
       IN /\ ~map.panic
          /\ ~out.panic
          /\ auto_map' = [index |-> map.index, sign |-> map.sign]
          /\ rlwe_in_ct' = out.rlwe_in
          /\ scratch_space' = out.scratch
    /\ ct_before' = rlwe_in_ct
    /\ pc' = "auto_done"
    /\ UNCHANGED <<s, rng, m0, seeded_rlwe_in_ct, encoded_m_back, noise, auto_k, auto_key>>

AutoDecrypt ==
    /\ UNCHANGED notAutoVars
    /\ pc = "auto_done"
    /\ encoded_m_back' = decrypt_rlwe(rlwe_in_ct.data, s)
    /\ pc' = "auto_decrypted"
    /\ UNCHANGED <<s, rng, m0, seeded_rlwe_in_ct, rlwe_in_ct, noise, scratch_space,
                   ct_before, auto_k, auto_key, auto_map>>

NextAuto == AutoEncryptRlwe \/ AutoKeyGen \/ AutoApply \/ AutoDecrypt

SpecAuto == InitAuto /\ [][NextAuto]_vars

\* r(X^k) mod X^N + 1 over Z_m, from the definition: coefficient i of r goes
\* to X^(i k), and X^N = -1
PolyAuto(r, k, modulus) ==
    [t \in Idx |->
        LET plus == {i \in Idx : (i * k) % (2 * RingSize) = t}
            minus == {i \in Idx : (i * k) % (2 * RingSize) = t + RingSize}
            term(i) == IF i \in plus THEN r[i] ELSE IF i \in minus THEN modulus - r[i] ELSE 0
        IN SumUpTo([i \in Idx |-> term(i)], RingSize - 1) % modulus]

\* the (index, sign) permutation of the message, as the test computes m_k
MessageAuto == Scatter(ZeroRow, [i \in Idx |-> IF ~auto_map.sign[i] THEN (P - m0[i]) % P
                                               ELSE m0[i]], auto_map.index)

\* the error after the automorphism: e(X^k) + <dec(a(X^k)), e_ksk>
AutoNoise ==
    elwise_add(PolyAuto(noise.e, auto_k, Q),
               GadgetNoise(PolyAuto(ct_before.data[0], auto_k, Q), noise.e_ksk))

AutoError == elwise_add(encoded_m_back, elwise_neg(EncodeRow(MessageAuto)))

\* C2: after galois_auto with the key of galois_key_gen(s, k) and the table
\* of generate_auto_map(N, k), for odd k of either sign, b - a * s is
\* (m + e)(X^k) plus the key switching error <dec(a(X^k)), e_ksk>; the
\* (index, sign) permutation of m is m(X^k), and the result decodes to it
\* when its distance to the encoding of m(X^k) is in the margin.
C2_GaloisAuto ==
    pc = "auto_decrypted" =>
        /\ ~ct_before.is_trivial
        /\ encoded_m_back = elwise_add(PolyAuto(EncodeRow(m0), auto_k, Q), AutoNoise)
        /\ MessageAuto = PolyAuto(m0, auto_k, P)
        /\ (WithinMargin(AutoError) => DecodeRow(encoded_m_back) = MessageAuto)

\* an automorphism for a negative k other than -1 whose error is not zero and
\* that decodes to m(X^k)
C2_Witness ==
    /\ pc = "auto_decrypted"
    /\ auto_k < -1
    /\ AutoNoise # ZeroRow
    /\ WithinMargin(AutoError)
    /\ MessageAuto # m0
    /\ DecodeRow(encoded_m_back) = MessageAuto

\* --------------------------------------------------- RGSW x RGSW scenario

\* the monomials X^k and -X^k
SignedMonomialSet ==
    MonomialSet \cup {[i \in Idx |-> IF i = k THEN Q - 1 ELSE 0] : k \in Idx}

InitInt ==
    /\ pc = "int_start"
    /\ s \in TernaryWithWeight(RingSize \div 2)
    /\ rng = Null
    /\ m0 \in MonomialSet
    /\ m1 \in SignedMonomialSet
    /\ seeded_rlwe_in_ct = Null
    /\ rlwe_in_ct = Null
    /\ encoded_m_back = Null
    /\ seeded_pk = Null
    /\ pk = Null
    /\ noise = [mode |-> "none"]
    /\ rgsw_ct = Null
    /\ scratch_space = Zeros(D + (D * 4))
    /\ ct_before = Null
    /\ auto_k = Null
    /\ auto_key = Null
    /\ auto_map = Null
    /\ rgsw_carrym = Null
    /\ seeded_server_key = Null
    /\ seeded_key_sent = Null
    /\ server_key = Null
    /\ server_key_prev = Null
    /\ main_prng = Null
    /\ draws = Null
    /\ seeded_ct = Null
    /\ gen_out = Null
    /\ expanded_ct = Null
    /\ shares = Null
    /\ agg_seeded_pk = Null
    /\ agg_pk = Null
    /\ last_op = Null

\* tests::sk_rgsw_by_rgsw: RGSW(carry_m), sent back to coefficient domain
IntEncryptCarry ==
    /\ UNCHANGED notIntVars
    /\ pc = "int_start"
    /\ \E k \in 0..MaxRngSeed :
        LET fb == fill_bytes(NewWithSeed(k))
            out == secret_key_encrypt_rgsw(m0, gadget_vector, s, NewWithSeed(fb.seed), fb.rng)
            rgsw_eval == RgswCiphertextEvaluationDomainFromSeeded(
                             [data |-> out.out_rgsw, seed |-> fb.seed, modulus |-> Q])
        IN /\ rgsw_carrym' = [r \in DOMAIN rgsw_eval.data |-> NttBackward(rgsw_eval.data[r])]
           /\ noise' = [mode |-> "int", e0_nsm |-> out.e_nsm, e0_m |-> out.e_m]
    /\ pc' = "int_carry"
    /\ UNCHANGED <<s, m0, m1, rgsw_ct, scratch_space, ct_before>>

\* tests::sk_rgsw_by_rgsw: RGSW(m) in evaluation domain
IntEncryptRgsw ==
    /\ UNCHANGED notIntVars
    /\ pc = "int_carry"
    /\ \E k \in 0..MaxRngSeed :
        LET fb == fill_bytes(NewWithSeed(k))
            out == secret_key_encrypt_rgsw(m1, gadget_vector, s, NewWithSeed(fb.seed), fb.rng)
        IN /\ rgsw_ct' = RgswCiphertextEvaluationDomainFromSeeded(
                             [data |-> out.out_rgsw, seed |-> fb.seed, modulus |-> Q])
           /\ noise' = [mode |-> "int", e0_nsm |-> noise.e0_nsm, e0_m |-> noise.e0_m,
                        e_nsm |-> out.e_nsm, e_m |-> out.e_m]
    /\ pc' = "int_ready"
    /\ UNCHANGED <<s, m0, m1, rgsw_carrym, scratch_space, ct_before>>

\* tests::sk_rgsw_by_rgsw: RGSW(carry_m) x RGSW(m), in place
IntProduct ==
    /\ UNCHANGED notIntVars
    /\ pc = "int_ready"
    /\ LET out == rgsw_by_rgsw_inplace(rgsw_carrym, rgsw_ct.data, scratch_space)
       IN /\ ~out.panic
          /\ rgsw_carrym' = out.rgsw_0
          /\ scratch_space' = out.scratch
    /\ ct_before' = [rgsw_0 |-> rgsw_carrym, rgsw_1 |-> rgsw_ct.data]
    /\ pc' = "int_done"
    /\ UNCHANGED <<s, m0, m1, rgsw_ct, noise>>

NextInt == IntEncryptCarry \/ IntEncryptRgsw \/ IntProduct

SpecInt == InitInt /\ [][NextInt]_vars

\* rlwe_by_rgsw on the non-trivial RLWE made of rows ra and rb of rgsw_0
ExternalOnRows(rgsw_0, ra, rb, rgsw_1) ==
    rlwe_by_rgsw([data |-> [i \in 0..1 |-> IF i = 0 THEN rgsw_0[ra] ELSE rgsw_0[rb]],
                  is_trivial |-> FALSE],
                 rgsw_1, Zeros(D + 2)).rlwe_in.data

\* rows ra and rb of the result are the external product of rows ra and rb
RowPairIsExternal(ra, rb) ==
    LET ext == ExternalOnRows(ct_before.rgsw_0, ra, rb, ct_before.rgsw_1)
    IN rgsw_carrym[ra] = ext[0] /\ rgsw_carrym[rb] = ext[1]

\* the message and the error row pair (2d + j, 3d + j) of the result holds,
\* read in coefficient domain
IntPhase(j) ==
    elwise_add(
        elwise_add(elwise_scalar_mul(NegacyclicMul(m0, m1), gadget_vector[j]),
                   NegacyclicMul(noise.e0_m[j], m1)),
        elwise_add(GadgetNoise(ct_before.rgsw_0[2 * D + j], noise.e_nsm),
                   GadgetNoise(ct_before.rgsw_0[3 * D + j], noise.e_m)))

DlogsSet == {(0 :> 0 @@ 1 :> 1), (0 :> 1 @@ 1 :> 0), (0 :> 2 @@ 1 :> 0 @@ 2 :> 1)}

\* a matrix of values a client sent
Fill(k, rows, cols, modulus) ==
    [r \in 0..(rows - 1) |-> UniformRow(Advance(NewWithSeed(k), r * cols), modulus, cols)]

InitExpand ==
    /\ pc = "exp_start"
    /\ s = Null
    /\ rng = Null
    /\ m0 = Null
    /\ m1 = Null
    /\ seeded_rlwe_in_ct = Null
    /\ rlwe_in_ct = Null
    /\ encoded_m_back = Null
    /\ seeded_pk = Null
    /\ pk = Null
    /\ noise = [mode |-> "none"]
    /\ rgsw_ct = Null
    /\ scratch_space = Null
    /\ ct_before = Null
    /\ auto_k = Null
    /\ auto_key = Null
    /\ auto_map = Null
    /\ rgsw_carrym = Null
    /\ seeded_server_key = Null
    /\ seeded_key_sent = Null
    /\ server_key = Null
    /\ server_key_prev = Null
    /\ main_prng = NewWithSeed(0)
    /\ draws = Null
    /\ seeded_ct = Null
    /\ gen_out = Null
    /\ expanded_ct = Null
    /\ shares = Null
    /\ agg_seeded_pk = Null
    /\ agg_pk = Null
    /\ last_op = Null

\* a seeded single-party server key arrives: from_raw
ExpFromRaw ==
    /\ UNCHANGED notKeyVars
    /\ pc = "exp_start"
    /\ \E seed \in 0..MaxSeed, k \in 0..MaxRngSeed, dlogs \in DlogsSet, n_rgsw \in 1..2,
          d_b \in {1, D} :
        LET parameters == BoolParameters(dlogs, D, d_b)
            out == SeededSinglePartyServerKeyFromRaw(
                       [i \in {dlogs[j] : j \in DOMAIN dlogs} |-> Fill(k + i, D, RingSize, Q)],
                       [c \in 0..(n_rgsw - 1) |-> Fill(k + 3 + c, 2 * D + d_b, RingSize, Q)],
                       UniformRow(NewWithSeed(k + 5), LweQ, LweD * RingSize),
                       parameters, seed)
        IN /\ ~out.panic
           /\ seeded_server_key' = out.key
           /\ seeded_key_sent' = out.key
    /\ pc' = "exp_seeded"
    /\ UNCHANGED <<server_key, server_key_prev, main_prng, draws>>

\* a seeded multi-party server key arrives: its RGSW ciphertexts are whole
ExpMultiPartyNew ==
    /\ UNCHANGED notKeyVars
    /\ pc = "exp_start"
    /\ \E seed \in 0..MaxSeed, k \in 0..MaxRngSeed, dlogs \in DlogsSet, n_rgsw \in 1..2,
          d_b \in {1, D} :
        LET parameters == BoolParameters(dlogs, D, d_b)
            key == SeededMultiPartyServerKeyNew(
                       [c \in 0..(n_rgsw - 1) |-> Fill(k + 3 + c, 2 * D + 2 * d_b, RingSize, Q)],
                       [i \in {dlogs[j] : j \in DOMAIN dlogs} |-> Fill(k + i, D, RingSize, Q)],
                       UniformRow(NewWithSeed(k + 5), LweQ, LweD * RingSize),
                       seed, parameters)
        IN /\ seeded_server_key' = key
           /\ seeded_key_sent' = key
    /\ pc' = "exp_seeded"
    /\ UNCHANGED <<server_key, server_key_prev, main_prng, draws>>

\* ServerKeyEvaluationDomain::from(&SeededSinglePartyServerKey), a first and
\* a second time
ExpandSingleParty ==
    /\ UNCHANGED notKeyVars
    /\ pc \in {"exp_seeded", "exp_once"}
    /\ seeded_server_key.kind = "single"
    /\ LET out == ServerKeyEvaluationDomainFromSingleParty(seeded_server_key, main_prng)
       IN /\ ~out.panic
          /\ server_key' = out.key
          /\ main_prng' = out.main_prng
          /\ draws' = out.draws
    /\ server_key_prev' = server_key
    /\ pc' = IF pc = "exp_seeded" THEN "exp_once" ELSE "exp_twice"
    /\ UNCHANGED <<seeded_server_key, seeded_key_sent>>

\* ServerKeyEvaluationDomain::from(&SeededMultiPartyServerKey), a first and a
\* second time
ExpandMultiParty ==
    /\ UNCHANGED notKeyVars
    /\ pc \in {"exp_seeded", "exp_once"}
    /\ seeded_server_key.kind = "multi"
    /\ LET out == ServerKeyEvaluationDomainFromMultiParty(seeded_server_key, main_prng)
       IN /\ ~out.panic
          /\ server_key' = out.key
          /\ main_prng' = out.main_prng
          /\ draws' = out.draws
    /\ server_key_prev' = server_key
    /\ pc' = IF pc = "exp_seeded" THEN "exp_once" ELSE "exp_twice"
    /\ UNCHANGED <<seeded_server_key, seeded_key_sent>>

NextExpand == ExpFromRaw \/ ExpMultiPartyNew \/ ExpandSingleParty \/ ExpandMultiParty

SpecExpand == InitExpand /\ [][NextExpand]_vars

\* an expansion has run on the seeded server key
Expanded == pc \in {"exp_once", "exp_twice"}

DrawSequence(value, rgsw_rows) ==
    LET parameters == value.parameters
        dlogs == parameters.auto_element_dlogs
        d == parameters.auto_decomposition_count
        n_a == Len0(dlogs) * d
        n_r == Len0(value.rgsw_cts) * rgsw_rows
        n_l == parameters.lwe_decomposition_count * parameters.rlwe_n
    IN [e \in 1..(n_a + n_r + n_l) |->
          IF e <= n_a
          THEN [group |-> "auto", key |-> dlogs[(e - 1) \div d], row |-> (e - 1) % d,
                pos |-> (e - 1) * parameters.rlwe_n,
                n |-> parameters.rlwe_n, modulus |-> parameters.rlwe_q]
          ELSE IF e <= n_a + n_r
          THEN [group |-> "rgsw", key |-> (e - n_a - 1) \div rgsw_rows,
                row |-> (e - n_a - 1) % rgsw_rows,
                pos |-> (e - 1) * parameters.rlwe_n,
                n |-> parameters.rlwe_n, modulus |-> parameters.rlwe_q]
          ELSE [group |-> "lwe", key |-> 0, row |-> e - n_a - n_r - 1,
                pos |-> (n_a + n_r) * parameters.rlwe_n
                        + (e - n_a - n_r - 1) * parameters.lwe_n,
                n |-> parameters.lwe_n, modulus |-> parameters.lwe_q]]

\* the values of the CSPRNG of a seed at the positions of a draw are what the
\* expanded key holds in the place the draw was made for: an a-row of an auto
\* key or of RLWE_A'(m) sent to evaluation domain, or columns 1.. of an
\* LWE-KSK row
DrawLanded(x) ==
    LET row == DrawnRow(NewWithSeed(seeded_server_key.seed), x)
        d_a == seeded_server_key.parameters.rlwe_rgsw_decomposition_count[1]
    IN CASE x.group = "auto" -> server_key.galois_keys[x.key][x.row] = NttForward(row)
         [] x.group = "rgsw" ->
                server_key.rgsw_cts[x.key][2 * d_a + x.row] = NttForward(row)
         [] x.group = "lwe" ->
                \A col \in 1..x.n : server_key.lwe_ksk[x.row][col] = row[col - 1]

\* the draws made are the sequence seq, each landed in its place, and the
\* CSPRNG gave nothing else
DrewExactly(seq) ==
    /\ draws = seq
    /\ \A e \in DOMAIN draws : DrawLanded(draws[e])
    /\ main_prng = Advance(NewWithSeed(seeded_server_key.seed),
                           IF Len(seq) = 0 THEN 0
                           ELSE seq[Len(seq)].pos + seq[Len(seq)].n)

\* C7: single-party expansion consumes the one CSPRNG of the key's seed in a
\* fixed order: d_auto rows of N values for each auto-key index in the order
\* of auto_element_dlogs, then the missing RLWE_A'(m) rows of each RGSW
\* ciphertext in vector order, then lwe_n values for each LWE-KSK row in row
\* order; no other draw is made and no later group precedes an earlier one
C7_SinglePartyDrawOrder ==
    (Expanded /\ seeded_server_key.kind = "single") =>
        DrewExactly(DrawSequence(seeded_server_key,
                        seeded_server_key.parameters.rlwe_rgsw_decomposition_count[2]))

\* a single-party key whose dlogs are out of numeric order, with two RGSW
\* ciphertexts of two RLWE_A'(m) rows each, has been expanded
C7_Witness ==
    /\ pc = "exp_once"
    /\ seeded_server_key.kind = "single"
    /\ seeded_server_key.parameters.auto_element_dlogs = (0 :> 2 @@ 1 :> 0 @@ 2 :> 1)
    /\ Len0(seeded_server_key.rgsw_cts) = 2
    /\ seeded_server_key.parameters.rlwe_rgsw_decomposition_count[2] = D
    /\ \E e \in DOMAIN draws : draws[e].group = "rgsw" /\ draws[e].key = 1
    /\ draws[Len(draws)].group = "lwe"

\* C8, as the specification states it: interactive multi-party expansion
\* takes b-part only RGSW inputs and draws from the CRS the a-rows of every
\* auto key, then the missing RLWE_A'(m) rows of every RGSW ciphertext, then
\* the LWE-KSK a-values
C8_Original ==
    (Expanded /\ seeded_server_key.kind = "multi") =>
        LET d_a == seeded_server_key.parameters.rlwe_rgsw_decomposition_count[1]
            d_b == seeded_server_key.parameters.rlwe_rgsw_decomposition_count[2]
        IN /\ \A c \in DOMAIN seeded_server_key.rgsw_cts :
                  Len0(seeded_server_key.rgsw_cts[c]) = 2 * d_a + d_b
           /\ DrewExactly(DrawSequence(seeded_server_key, d_b))

\* C8: interactive multi-party expansion draws from the CRS, in order, the
\* a-rows of every auto key and then the LWE-KSK a-values; every RGSW
\* ciphertext comes whole, with its 2 d_a + 2 d_b rows, is sent to evaluation
\* domain row by row, and no value of the CRS is drawn for it
C8_MultiPartyDraws ==
    (Expanded /\ seeded_server_key.kind = "multi") =>
        LET d_a == seeded_server_key.parameters.rlwe_rgsw_decomposition_count[1]
            d_b == seeded_server_key.parameters.rlwe_rgsw_decomposition_count[2]
        IN /\ \A c \in DOMAIN seeded_server_key.rgsw_cts :
                  /\ Len0(seeded_server_key.rgsw_cts[c]) = 2 * d_a + 2 * d_b
                  /\ server_key.rgsw_cts[c] =
                        [r \in 0..(2 * d_a + 2 * d_b - 1) |->
                            NttForward(seeded_server_key.rgsw_cts[c][r])]
           /\ DrewExactly(DrawSequence(seeded_server_key, 0))

\* a multi-party key with two whole RGSW ciphertexts has been expanded, the
\* LWE-KSK values drawn right after the last auto key's rows
C8_Witness ==
    /\ pc = "exp_once"
    /\ seeded_server_key.kind = "multi"
    /\ Len0(seeded_server_key.rgsw_cts) = 2
    /\ seeded_server_key.parameters.rlwe_rgsw_decomposition_count[2] = D
    /\ \E e \in DOMAIN draws :
          /\ e > 1
          /\ draws[e].group = "lwe"
          /\ draws[e - 1].group = "auto"
          /\ draws[e].pos = draws[e - 1].pos + RingSize

\* ------------------------------------------------- seed replay scenario

InitSeed ==
    /\ pc = "seed_start"
    /\ s \in SecretSet
    /\ rng \in {NewWithSeed(k) : k \in 0..MaxRngSeed}
    /\ m0 = Null
    /\ m1 = Null
    /\ seeded_rlwe_in_ct = Null
    /\ rlwe_in_ct = Null
    /\ encoded_m_back = Null
    /\ seeded_pk = Null
    /\ pk = Null
    /\ noise = [mode |-> "none"]
    /\ rgsw_ct = Null
    /\ scratch_space = Null
    /\ ct_before = Null
    /\ auto_k = Null
    /\ auto_key = Null
    /\ auto_map = Null
    /\ rgsw_carrym = Null
    /\ seeded_server_key = Null
    /\ seeded_key_sent = Null
    /\ server_key = Null
    /\ server_key_prev = Null
    /\ main_prng = Null
    /\ draws = Null
    /\ seeded_ct = Null
    /\ gen_out = Null
    /\ expanded_ct = Null
    /\ shares = Null
    /\ agg_seeded_pk = Null
    /\ agg_pk = Null
    /\ last_op = Null

\* a seeded RLWE ciphertext of m is generated from a CSPRNG of a seed
SeedEncryptRlwe ==
    /\ UNCHANGED notSeedVars
    /\ pc = "seed_start"
    /\ \E m \in MessageSet, seed \in 0..MaxSeed :
        LET out == secret_key_encrypt_rlwe(EncodeRow(m), s, NewWithSeed(seed), rng)
        IN /\ seeded_ct' = [data |-> out.b_rlwe_out, seed |-> seed, modulus |-> Q]
           /\ gen_out' = [kind |-> "rlwe", m |-> EncodeRow(m), a |-> (0 :> out.a),
                          e |-> (0 :> out.e), p_rng |-> out.p_rng]
           /\ rng' = out.rng
    /\ pc' = "seed_generated"
    /\ UNCHANGED <<s, expanded_ct>>

\* a seeded RGSW ciphertext of m is generated from a CSPRNG of a seed
SeedEncryptRgsw ==
    /\ UNCHANGED notSeedVars
    /\ pc = "seed_start"
    /\ \E m \in RgswMessageSet, seed \in 0..MaxSeed :
        LET out == secret_key_encrypt_rgsw(m, gadget_vector, s, NewWithSeed(seed), rng)
        IN /\ seeded_ct' = [data |-> out.out_rgsw, seed |-> seed, modulus |-> Q]
           /\ gen_out' = [kind |-> "rgsw", m |-> m, a |-> out.a_m, e |-> out.e_m,
                          p_rng |-> out.p_rng, a_nsm |-> out.a_nsm, e_nsm |-> out.e_nsm,
                          rng |-> rng]
           /\ rng' = out.rng
    /\ pc' = "seed_generated"
    /\ UNCHANGED <<s, expanded_ct>>

\* a seeded auto key for X -> X^k is generated from a CSPRNG of a seed
SeedGaloisKeyGen ==
    /\ UNCHANGED notSeedVars
    /\ pc = "seed_start"
    /\ \E k \in AutoKSet, seed \in 0..MaxSeed :
        LET out == galois_key_gen(Zeros(D), s, k, gadget_vector, NewWithSeed(seed), rng)
        IN /\ ~out.panic
           /\ seeded_ct' = [data |-> out.ksk_out, seed |-> seed, modulus |-> Q]
           /\ gen_out' = [kind |-> "auto", k |-> k, a |-> out.a, e |-> out.e,
                          p_rng |-> out.p_rng, neg_s_auto |-> out.neg_from_s]
           /\ rng' = out.rng
    /\ pc' = "seed_generated"
    /\ UNCHANGED <<s, expanded_ct>>

\* RlweCiphertext::from(&SeededRlweCiphertext)
SeedExpandRlwe ==
    /\ UNCHANGED notSeedVars
    /\ pc = "seed_generated"
    /\ gen_out.kind = "rlwe"
    /\ expanded_ct' = RlweCiphertextFromSeeded(seeded_ct)
    /\ pc' = "seed_expanded"
    /\ UNCHANGED <<s, rng, seeded_ct, gen_out>>

\* RgswCiphertextEvaluationDomain::from(&SeededRgswCiphertext)
SeedExpandRgsw ==
    /\ UNCHANGED notSeedVars
    /\ pc = "seed_generated"
    /\ gen_out.kind = "rgsw"
    /\ expanded_ct' = RgswCiphertextEvaluationDomainFromSeeded(seeded_ct)
    /\ pc' = "seed_expanded"
    /\ UNCHANGED <<s, rng, seeded_ct, gen_out>>

\* AutoKeyEvaluationDomain::from(&SeededAutoKey)
SeedExpandAuto ==
    /\ UNCHANGED notSeedVars
    /\ pc = "seed_generated"
    /\ gen_out.kind = "auto"
    /\ expanded_ct' = AutoKeyEvaluationDomainFromSeeded(seeded_ct)
    /\ pc' = "seed_expanded"
    /\ UNCHANGED <<s, rng, seeded_ct, gen_out>>

NextSeed == SeedEncryptRlwe \/ SeedEncryptRgsw \/ SeedGaloisKeyGen
            \/ SeedExpandRlwe \/ SeedExpandRgsw \/ SeedExpandAuto

SpecSeed == InitSeed /\ [][NextSeed]_vars

\* the number of (a, b) row pairs of the expanded object whose a is drawn
\* again from the seed
SeededPairs == IF gen_out.kind = "rlwe" THEN 1 ELSE D

\* row a and row b of pair j of the expanded object, in coefficient domain
ExpandedA(j) ==
    CASE gen_out.kind = "rlwe" -> expanded_ct.data[0]
      [] gen_out.kind = "rgsw" -> NttBackward(expanded_ct.data[2 * D + j])
      [] gen_out.kind = "auto" -> NttBackward(expanded_ct.data[j])
ExpandedB(j) ==
    CASE gen_out.kind = "rlwe" -> expanded_ct.data[1]
      [] gen_out.kind = "rgsw" -> NttBackward(expanded_ct.data[3 * D + j])
      [] gen_out.kind = "auto" -> NttBackward(expanded_ct.data[D + j])

\* the message of pair j: the encoded message, beta_j * m, beta_j * (-s(X^k))
SeededMessage(j) ==
    CASE gen_out.kind = "rlwe" -> gen_out.m
      [] gen_out.kind = "rgsw" -> elwise_scalar_mul(gen_out.m, gadget_vector[j])
      [] gen_out.kind = "auto" ->
            elwise_scalar_mul(elwise_neg(PolyAuto(TryConvertFrom(s), gen_out.k, Q)),
                              gadget_vector[j])

\* C9: for seeded RLWE ciphertexts, seeded RGSW ciphertexts and seeded auto
\* keys, the a rows the seeded-to-full conversion draws from the stored seed
\* are the a rows the generator drew from a CSPRNG of that seed, as many, in
\* the same order, the generator having drawn nothing else from it, and every
\* expanded row pair satisfies b = a * s + e + message in coefficient domain
C9_SeedReplay ==
    pc = "seed_expanded" =>
        /\ DOMAIN gen_out.a = 0..(SeededPairs - 1)
        /\ gen_out.p_rng = Advance(NewWithSeed(seeded_ct.seed), SeededPairs * RingSize)
        /\ \A j \in 0..(SeededPairs - 1) :
              /\ ExpandedA(j) = gen_out.a[j]
              /\ ExpandedB(j) =
                    elwise_add(elwise_add(NegacyclicMul(ExpandedA(j), TryConvertFrom(s)),
                                          gen_out.e[j]),
                               SeededMessage(j))

\* a seeded RGSW ciphertext under a secret with a non-zero coefficient has
\* been expanded, its two a rows differ and its errors are not all zero
C9_Witness ==
    /\ pc = "seed_expanded"
    /\ gen_out.kind = "rgsw"
    /\ \E i \in Idx : s[i] # 0
    /\ gen_out.a[0] # gen_out.a[1]
    /\ \E j \in 0..(D - 1) : gen_out.e[j] # ZeroRow
    /\ ExpandedA(1) = gen_out.a[1]

\* ------------------------------------------- public key aggregation scenario

\* the most shares in a slice
MaxShares == 3

\* the secret of the party whose generator has seed k
PartySecret(k) == [i \in Idx |-> PrngValue(k + 7, i, 3) - 1]

InitAgg ==
    /\ pc = "agg_collect"
    /\ s = Null
    /\ rng = Null
    /\ m0 = Null
    /\ m1 = Null
    /\ seeded_rlwe_in_ct = Null
    /\ rlwe_in_ct = Null
    /\ encoded_m_back = Null
    /\ seeded_pk = Null
    /\ pk = Null
    /\ noise = [mode |-> "none"]
    /\ rgsw_ct = Null
    /\ scratch_space = Null
    /\ ct_before = Null
    /\ auto_k = Null
    /\ auto_key = Null
    /\ auto_map = Null
    /\ rgsw_carrym = Null
    /\ seeded_server_key = Null
    /\ seeded_key_sent = Null
    /\ server_key = Null
    /\ server_key_prev = Null
    /\ main_prng = Null
    /\ draws = Null
    /\ seeded_ct = Null
    /\ gen_out = Null
    /\ expanded_ct = Null
    /\ shares = <<>>
    /\ agg_seeded_pk = Null
    /\ agg_pk = Null
    /\ last_op = Null

\* one more party's share joins the slice: b_i = a * s_i + e_i with a drawn
\* from the seed the party took for the CRS
AggAddShare ==
    /\ UNCHANGED notAggVars
    /\ pc = "agg_collect"
    /\ Len0(shares) < MaxShares
    /\ \E cr_seed \in 0..MaxSeed, k \in 0..MaxRngSeed, d_b \in {1, D} :
        LET out == gen_rlwe_public_key(PartySecret(k), NewWithSeed(cr_seed),
                                       NewWithSeed(k))
            share == CommonReferenceSeededCollectivePublicKeyShareNew(
                         out.part_b_out, cr_seed, BoolParameters(<<>>, D, d_b))
        IN shares' = [i \in 0..Len0(shares) |->
                         IF i < Len0(shares) THEN shares[i] ELSE share]
    /\ UNCHANGED <<pc, agg_seeded_pk, agg_pk>>

\* PublicKey::from(&shares)
AggPublicKey ==
    /\ UNCHANGED notAggVars
    /\ pc = "agg_collect"
    /\ LET out == PublicKeyFromShares(shares)
       IN IF out.panic
          THEN pc' = "agg_aborted" /\ UNCHANGED agg_pk
          ELSE pc' = "agg_done" /\ agg_pk' = out.key
    /\ UNCHANGED <<shares, agg_seeded_pk>>

\* SeededPublicKey::from(&shares)
AggSeededPublicKey ==
    /\ UNCHANGED notAggVars
    /\ pc = "agg_collect"
    /\ LET out == SeededPublicKeyFromShares(shares)
       IN IF out.panic
          THEN pc' = "agg_aborted" /\ UNCHANGED agg_seeded_pk
          ELSE pc' = "agg_seeded" /\ agg_seeded_pk' = out.key
    /\ UNCHANGED <<shares, agg_pk>>

\* PublicKey::from(SeededPublicKey)
AggExpandSeeded ==
    /\ UNCHANGED notAggVars
    /\ pc = "agg_seeded"
    /\ agg_pk' = PublicKeyFromSeeded(agg_seeded_pk)
    /\ pc' = "agg_done"
    /\ UNCHANGED <<shares, agg_seeded_pk>>

NextAgg == AggAddShare \/ AggPublicKey \/ AggSeededPublicKey \/ AggExpandSeeded

SpecAgg == InitAgg /\ [][NextAgg]_vars

\* coefficient t of the sum of the shares' b_i, modulo rlwe_q
ShareSum(t) ==
    SumUpTo([i \in 0..(Len0(shares) - 1) |-> shares[i].share[t]], Len0(shares) - 1)

\* C10: for every non-empty slice of shares that agree on CRS seed and
\* parameters, the aggregated PublicKey has row 0 equal to the N values drawn
\* from a CSPRNG of the common seed and row 1 equal to the coefficient-wise
\* sum of all shares' b_i modulo rlwe_q
C10_AggregatedPublicKey ==
    (pc = "agg_done" /\ Len0(shares) > 0 /\ SharesAgree(shares, 0)) =>
        /\ agg_pk[0] = UniformRow(NewWithSeed(shares[0].cr_seed), Q, RingSize)
        /\ agg_pk[1] = [t \in Idx |-> ShareSum(t) % Q]

\* three agreeing shares, no two the same, have been aggregated, and a
\* coefficient of their sum wrapped around rlwe_q
C10_Witness ==
    /\ pc = "agg_done"
    /\ Len0(shares) = 3
    /\ SharesAgree(shares, 0)
    /\ shares[0] # shares[1]
    /\ \E t \in Idx : ShareSum(t) >= Q
    /\ agg_pk[1] = [t \in Idx |-> ShareSum(t) % Q]

\* the shares of the slice that carry another seed or other parameters than
\* the first
Offending == {i \in DOMAIN shares : \/ shares[i].cr_seed # shares[0].cr_seed
                                     \/ shares[i].parameters # shares[0].parameters}

\* C11: aggregation into PublicKey and into SeededPublicKey aborts without
\* emitting a key whenever any share of the slice, at whatever position,
\* carries a CRS seed or parameters different from the first share's, and on
\* an empty slice
C11_AggregationAborts ==
    /\ pc \in {"agg_done", "agg_seeded"} => (Len0(shares) > 0 /\ Offending = {})
    /\ pc = "agg_aborted" =>
          /\ Len0(shares) = 0 \/ Offending # {}
          /\ agg_pk = Null
          /\ agg_seeded_pk = Null

\* a slice of three shares whose last share alone carries another seed has
\* been refused
C11_Witness ==
    /\ pc = "agg_aborted"
    /\ Offending = {2}
    /\ shares[2].cr_seed # shares[0].cr_seed
    /\ agg_pk = Null

\* the orders a slice can come in, and the slice in one of them
ShareOrders == {f \in [DOMAIN shares -> DOMAIN shares] :
                    \A i, j \in DOMAIN shares : i # j => f[i] # f[j]}
Reordered(f) == [i \in DOMAIN shares |-> shares[f[i]]]

\* C12: for every consistent share slice and every permutation of it, the
\* aggregated PublicKey (rows a and b) is identical
C12_AggregationCommutes ==
    pc = "agg_done" =>
        \A f \in ShareOrders :
            LET out == PublicKeyFromShares(Reordered(f))
            IN ~out.panic /\ out.key = agg_pk

\* three shares, the first and the last different, have been aggregated, and
\* the slice taken backwards aggregates to the same key
C12_Witness ==
    /\ pc = "agg_done"
    /\ Len0(shares) = 3
    /\ shares[0].share # shares[2].share
    /\ PublicKeyFromShares(Reordered([i \in DOMAIN shares |-> 2 - i])).key = agg_pk

\* ------------------------------------------------- calls in sequence

\* the most calls made one after the other
MaxOps == 2

\* a matrix of zeros with the given numbers of rows and columns
ZerosOf(rows, cols) == [r \in 0..(rows - 1) |-> [i \in 0..(cols - 1) |-> 0]]
\* what a scratch matrix holds when it is handed in: zeros, or residues
\* left in it, none of them zero
ScratchFills == {0, 7}
ScratchWith(held, rows, cols) ==
    [r \in 0..(rows - 1) |->
        [i \in 0..(cols - 1) |-> IF held = 0 THEN 0 ELSE 1 + ((held * (r + 1) + i) % (Q - 1))]]
\* the scratch matrix of a call: zeroed for the first operation, holding
\* values for every later one, as a buffer that is used again does
ScratchOf(rows, cols) == ScratchWith(IF last_op.n = 0 THEN 0 ELSE 7, rows, cols)
\* the scratch matrix does not hold zeros only
HoldsValues(scratch) == \E r \in DOMAIN scratch : \E i \in DOMAIN scratch[r] : scratch[r][i] # 0
\* a matrix cut or padded with zero rows to the given number of rows
Resized(m, rows) == [r \in 0..(rows - 1) |-> IF r < Len0(m) THEN m[r] ELSE ZeroRow]

\* a trivial RLWE ciphertext (0, m), a fresh encryption of m0 or the rows of
\* one handed to RlweCiphertext::from_raw with is_trivial set; an RGSW
\* ciphertext of X in both domains, and the auto key for k = -5
InitOps ==
    /\ pc = "ops"
    /\ s \in {PartySecret(k) : k \in 0..MaxRngSeed}
    /\ m0 = [i \in Idx |-> (1 + i) % P]
    /\ LET fresh == RlweCiphertextFromSeeded(
                        [data |-> secret_key_encrypt_rlwe(EncodeRow(m0), s, NewWithSeed(0),
                                                          NewWithSeed(0)).b_rlwe_out,
                         seed |-> 0, modulus |-> Q])
       IN rlwe_in_ct \in
             {[data |-> [i \in 0..1 |-> IF i = 0 THEN ZeroRow ELSE EncodeRow(m0)],
               is_trivial |-> TRUE],
              fresh,
              RlweCiphertextFromRaw(fresh.data, TRUE)}
    /\ rgsw_ct = RgswCiphertextEvaluationDomainFromSeeded(
                     [data |-> secret_key_encrypt_rgsw([i \in Idx |-> IF i = 1 THEN 1 ELSE 0],
                                                       gadget_vector, s, NewWithSeed(1),
                                                       NewWithSeed(1)).out_rgsw,
                      seed |-> 1, modulus |-> Q])
    /\ rgsw_carrym = [r \in DOMAIN rgsw_ct.data |-> NttBackward(rgsw_ct.data[r])]
    /\ auto_k = -5
    /\ auto_map = generate_auto_map(RingSize, auto_k)
    /\ auto_key = AutoKeyEvaluationDomainFromSeeded(
                      [data |-> galois_key_gen(Zeros(D), s, auto_k, gadget_vector,
                                               NewWithSeed(0), NewWithSeed(1)).ksk_out,
                       seed |-> 0, modulus |-> Q])
    /\ ct_before = rlwe_in_ct
    /\ last_op = [n |-> 0, op |-> "none", failed |-> FALSE]
    /\ rng = Null
    /\ m1 = Null
    /\ seeded_rlwe_in_ct = Null
    /\ encoded_m_back = Null
    /\ seeded_pk = Null
    /\ pk = Null
    /\ noise = [mode |-> "none"]
    /\ scratch_space = Null
    /\ seeded_server_key = Null
    /\ seeded_key_sent = Null
    /\ server_key = Null
    /\ server_key_prev = Null
    /\ main_prng = Null
    /\ draws = Null
    /\ seeded_ct = Null
    /\ gen_out = Null
    /\ expanded_ct = Null
    /\ shares = Null
    /\ agg_seeded_pk = Null
    /\ agg_pk = Null

\* what a call on rlwe_in_ct leaves: the ciphertext as it was when the call
\* failed, the result when it returned
AfterCall(op, out, scratch, operand) ==
    /\ rlwe_in_ct' = out.rlwe_in
    /\ ct_before' = rlwe_in_ct
    /\ last_op' = [n |-> last_op.n + 1, op |-> op, failed |-> out.panic,
                   scratch |-> dimension(scratch), operand |-> dimension(operand),
                   held |-> HoldsValues(scratch)]
    /\ UNCHANGED <<pc, s, m0, rgsw_ct, auto_k, auto_key, auto_map, rgsw_carrym>>

\* rlwe_by_rgsw(rlwe_in_ct, rgsw_ct, scratch), whatever the shapes handed in
OpsRlweByRgsw ==
    /\ UNCHANGED notOpsVars
    /\ last_op.n < MaxOps
    /\ \E rows \in {D + 1, D + 2, D + 3}, cols \in {RingSize, RingSize + 1},
          rgsw_rows \in {3 * D, 4 * D, 4 * D + 1} :
        LET scratch == ScratchOf(rows, cols)
            rgsw_in == Resized(rgsw_ct.data, rgsw_rows)
        IN AfterCall("rlwe_by_rgsw", rlwe_by_rgsw(rlwe_in_ct, rgsw_in, scratch),
                     scratch, rgsw_in)

\* less1_rlwe_by_rgsw(rlwe_in_ct, rgsw_ct, scratch, skip0, skip1) for every
\* skip0, skip1 <= d with the exact shapes, and with other shapes for equal
\* skips below d
OpsLess1RlweByRgsw ==
    /\ UNCHANGED notOpsVars
    /\ last_op.n < MaxOps
    /\ \E rows \in {D + 1, D + 2, D + 3}, cols \in {RingSize, RingSize + 1},
          rgsw_rows \in {3 * D, 4 * D, 4 * D + 1}, skip0 \in 0..D, skip1 \in 0..D :
        LET scratch == ScratchOf(rows, cols)
            rgsw_in == Resized(rgsw_ct.data, rgsw_rows)
            out == less1_rlwe_by_rgsw(rlwe_in_ct, rgsw_in, scratch, skip0, skip1)
        IN /\ out.panic => (skip0 = skip1 /\ skip0 < D)
           /\ rlwe_in_ct' = out.rlwe_in
           /\ ct_before' = rlwe_in_ct
           /\ last_op' = [n |-> last_op.n + 1, op |-> "less1_rlwe_by_rgsw",
                          failed |-> out.panic, scratch |-> dimension(scratch),
                          operand |-> dimension(rgsw_in), skip0 |-> skip0, skip1 |-> skip1,
                          held |-> HoldsValues(scratch)]
    /\ UNCHANGED <<pc, s, m0, rgsw_ct, auto_k, auto_key, auto_map, rgsw_carrym>>

\* galois_auto(rlwe_in_ct, auto_key, scratch, auto_map)
OpsGaloisAuto ==
    /\ UNCHANGED notOpsVars
    /\ last_op.n < MaxOps
    /\ \E rows \in {D + 1, D + 2, D + 3}, ksk_rows \in {D - 1, D, 2 * D, 2 * D + 1} :
        LET scratch == ScratchOf(rows, RingSize)
            ksk == Resized(auto_key.data, ksk_rows)
        IN AfterCall("galois_auto",
                     galois_auto(rlwe_in_ct, ksk, scratch, auto_map.index, auto_map.sign),
                     scratch, ksk)

\* rlwe_in_ct.set_not_trivial()
OpsSetNotTrivial ==
    /\ UNCHANGED notOpsVars
    /\ last_op.n < MaxOps
    /\ rlwe_in_ct' = set_not_trivial(rlwe_in_ct)
    /\ ct_before' = rlwe_in_ct
    /\ last_op' = [n |-> last_op.n + 1, op |-> "set_not_trivial", failed |-> FALSE]
    /\ UNCHANGED <<pc, s, m0, rgsw_ct, auto_k, auto_key, auto_map, rgsw_carrym>>

\* rgsw_by_rgsw_inplace(rgsw_carrym, rgsw_ct, scratch)
OpsRgswByRgsw ==
    /\ UNCHANGED notOpsVars
    /\ last_op.n < MaxOps
    /\ \E rows \in {5 * D - 1, 5 * D, 5 * D + 1}, cols \in {RingSize, RingSize + 1},
          rgsw_0_rows \in {3 * D, 4 * D}, rgsw_1_rows \in {3 * D, 4 * D, 4 * D + 1} :
        LET scratch == ScratchOf(rows, cols)
            rgsw_0 == Resized(rgsw_carrym, rgsw_0_rows)
            rgsw_1 == Resized(rgsw_ct.data, rgsw_1_rows)
            out == rgsw_by_rgsw_inplace(rgsw_0, rgsw_1, scratch)
        IN /\ rgsw_carrym' = out.rgsw_0
           /\ ct_before' = rgsw_0
           /\ last_op' = [n |-> last_op.n + 1, op |-> "rgsw_by_rgsw_inplace",
                          failed |-> out.panic, scratch |-> dimension(scratch),
                          operand |-> dimension(rgsw_1), rgsw_0 |-> dimension(rgsw_0),
                          held |-> HoldsValues(scratch)]
    /\ UNCHANGED <<pc, s, m0, rlwe_in_ct, rgsw_ct, auto_k, auto_key, auto_map>>

NextOps == OpsRlweByRgsw \/ OpsLess1RlweByRgsw \/ OpsGaloisAuto \/ OpsSetNotTrivial
           \/ OpsRgswByRgsw

SpecOps == InitOps /\ [][NextOps]_vars

\* C13: after rlwe_by_rgsw or less1_rlwe_by_rgsw returns, on a trivial or a
\* non-trivial input, is_trivial is false; and once is_trivial is false no
\* call of rlwe_by_rgsw, less1_rlwe_by_rgsw, galois_auto or set_not_trivial
\* makes it true again
C13_TrivialMonotone ==
    [][/\ ~rlwe_in_ct.is_trivial => ~rlwe_in_ct'.is_trivial
       /\ (last_op'.op \in {"rlwe_by_rgsw", "less1_rlwe_by_rgsw"} /\ ~last_op'.failed)
             => ~rlwe_in_ct'.is_trivial]_vars

\* a first call has left a ciphertext that is not trivial, with a non-zero a,
\* and galois_auto has then run on it and returned: it is still not trivial
C13_Witness ==
    /\ last_op.n = 2
    /\ last_op.op = "galois_auto"
    /\ ~last_op.failed
    /\ ~ct_before.is_trivial
    /\ ct_before.data[0] # ZeroRow
    /\ ~rlwe_in_ct.is_trivial


\* the table of generate_auto_map is the identity, every sign positive
IdentityMap ==
    /\ auto_map.index = [i \in Idx |-> i]
    /\ auto_map.sign = [i \in Idx |-> TRUE]

\* the automorphism has been applied
AutoApplied == pc \in {"auto_done", "auto_decrypted"}

\* C14, as the specification states it: for k = 1 and for k = -1 the table
\* of generate_auto_map(N, k) is the identity with every sign positive, and
\* galois_auto leaves the message unchanged up to key-switch noise
C14_Original ==
    (AutoApplied /\ auto_k \in {1, -1}) =>
        /\ IdentityMap
        /\ pc = "auto_decrypted" =>
              encoded_m_back = elwise_add(EncodeRow(m0), AutoNoise)

\* C14: for k = 1 the table of generate_auto_map(N, k) is the identity with
\* every sign positive and galois_auto leaves the message unchanged up to
\* key-switch noise; for k = -1 the table sends index 0 to itself with a
\* positive sign and every other index i to N - i with a negative sign, and
\* galois_auto turns the message m(X) into m(X^-1)
C14_AutoMapOfOne ==
    /\ (AutoApplied /\ auto_k = 1) =>
          /\ IdentityMap
          /\ pc = "auto_decrypted" =>
                /\ encoded_m_back = elwise_add(EncodeRow(m0), AutoNoise)
                /\ (WithinMargin(AutoError) => DecodeRow(encoded_m_back) = m0)
    /\ (AutoApplied /\ auto_k = -1) =>
          /\ auto_map.index = [i \in Idx |-> (RingSize - i) % RingSize]
          /\ auto_map.sign = [i \in Idx |-> i = 0]
          /\ pc = "auto_decrypted" =>
                /\ MessageAuto = [t \in Idx |-> IF t = 0 THEN m0[0]
                                                ELSE (P - m0[RingSize - t]) % P]
                /\ (WithinMargin(AutoError) => DecodeRow(encoded_m_back) = MessageAuto)

\* the automorphism for k = 1 has run on a message that is not constant, with
\* a key-switch error that is not zero, and the message decrypts unchanged
C14_Witness ==
    /\ pc = "auto_decrypted"
    /\ auto_k = 1
    /\ IdentityMap
    /\ m0[0] # m0[1]
    /\ AutoNoise # noise.e
    /\ WithinMargin(AutoError)
    /\ DecodeRow(encoded_m_back) = m0

\* --------------------------------------- server keys of every kind scenario

\* the orders a key can list its users in
KeyOrders(n) ==
    {f \in [0..(n - 1) -> 0..(n - 1)] : \A i, j \in 0..(n - 1) : f[i] = f[j] => i = j}

\* the ways a seeded server key can differ from what its parameters ask for
FaultSet == {"none", "lwe_ksk_short", "lwe_ksk_long", "auto_key_rows", "rgsw_rows",
             "auto_key_absent", "auto_key_extra"}

\* the rows of a seeded RGSW ciphertext of each kind of key: the single-party
\* one lacks the a-rows of its RLWE'(m) half
SeededRgswRows(kind, parameters) ==
    LET d_a == parameters.rlwe_rgsw_decomposition_count[1]
        d_b == parameters.rlwe_rgsw_decomposition_count[2]
    IN IF kind = "single" THEN 2 * d_a + d_b ELSE 2 * d_a + 2 * d_b

\* the LWE-KSK length, the auto key dimensions and the RGSW dimensions of a
\* seeded server key are those of its parameters
MatchesParameters(value) ==
    LET parameters == value.parameters
    IN /\ Len0(value.lwe_ksk) = parameters.lwe_decomposition_count * parameters.rlwe_n
       /\ \A k \in DOMAIN value.auto_keys :
             dimension(value.auto_keys[k])
                 = <<parameters.auto_decomposition_count, parameters.rlwe_n>>
       /\ \A c \in DOMAIN value.rgsw_cts :
             dimension(value.rgsw_cts[c])
                 = <<SeededRgswRows(value.kind, parameters), parameters.rlwe_n>>

\* the expander of each kind of seeded server key
ServerKeyFrom(value) ==
    IF value.kind = "single"
    THEN ServerKeyEvaluationDomainFromSingleParty(value, NewWithSeed(0))
    ELSE IF value.kind = "multi"
    THEN ServerKeyEvaluationDomainFromMultiParty(value, NewWithSeed(0))
    ELSE NonInteractiveServerKeyEvaluationDomainFrom(value)

InitKeys ==
    /\ pc = "keys_start"
    /\ s = Null
    /\ rng = Null
    /\ m0 = Null
    /\ m1 = Null
    /\ seeded_rlwe_in_ct = Null
    /\ rlwe_in_ct = Null
    /\ encoded_m_back = Null
    /\ seeded_pk = Null
    /\ pk = Null
    /\ noise = [mode |-> "none"]
    /\ rgsw_ct = Null
    /\ scratch_space = Null
    /\ ct_before = Null
    /\ auto_k = Null
    /\ auto_key = Null
    /\ auto_map = Null
    /\ rgsw_carrym = Null
    /\ seeded_server_key = Null
    /\ seeded_key_sent = Null
    /\ server_key = Null
    /\ server_key_prev = Null
    /\ main_prng = NewWithSeed(0)
    /\ draws = Null
    /\ seeded_ct = Null
    /\ gen_out = Null
    /\ expanded_ct = Null
    /\ shares = Null
    /\ agg_seeded_pk = Null
    /\ agg_pk = Null
    /\ last_op = [op |-> "none"]

\* a seeded server key of one of the three kinds arrives, as its parameters
\* ask for or differing from them in one way
KeysReceive ==
    /\ UNCHANGED notKeysVars
    /\ pc = "keys_start"
    /\ \E kind \in {"single", "multi", "non_interactive"}, seed \in 0..MaxSeed,
          dlogs \in DlogsSet, fault \in FaultSet, users \in 1..MaxUsers :
       \E order \in KeyOrders(users) :
        LET parameters == BoolParameters(dlogs, D, D)
            required == {dlogs[j] : j \in DOMAIN dlogs}
            indices == IF fault = "auto_key_absent" THEN required \ {dlogs[0]}
                       ELSE IF fault = "auto_key_extra" THEN required \cup {3}
                       ELSE required
            auto_keys == [i \in indices |->
                             Fill(seed + i, IF fault = "auto_key_rows" THEN D + 1 ELSE D,
                                  RingSize, Q)]
            rgsw_cts == [c \in 0..1 |->
                            Fill(seed + 3 + c,
                                 SeededRgswRows(kind, parameters)
                                     + (IF fault = "rgsw_rows" THEN 1 ELSE 0),
                                 RingSize, Q)]
            lwe_ksk == UniformRow(NewWithSeed(seed + 5), LweQ,
                                  LweD * RingSize
                                      + (IF fault = "lwe_ksk_short" THEN -1
                                         ELSE IF fault = "lwe_ksk_long" THEN 1 ELSE 0))
        IN /\ kind # "non_interactive" => users = 1
           /\ seeded_server_key' =
                 IF kind = "single"
                 THEN [kind |-> "single", rgsw_cts |-> rgsw_cts, auto_keys |-> auto_keys,
                       lwe_ksk |-> lwe_ksk, parameters |-> parameters, seed |-> seed]
                 ELSE IF kind = "multi"
                 THEN SeededMultiPartyServerKeyNew(rgsw_cts, auto_keys, lwe_ksk, seed,
                                                   parameters)
                 ELSE SeededNonInteractiveMultiPartyServerKeyNew(
                          [j \in 0..(users - 1) |-> Fill(seed + 7 + j, D, RingSize, Q)],
                          order, rgsw_cts, auto_keys, lwe_ksk, seed, parameters)
    /\ pc' = "keys_seeded"
    /\ UNCHANGED <<server_key, server_key_prev, last_op>>

\* the expander of the key's kind runs: it returns a server key or panics
KeysExpand ==
    /\ UNCHANGED notKeysVars
    /\ pc = "keys_seeded"
    /\ LET out == ServerKeyFrom(seeded_server_key)
       IN IF out.panic
          THEN pc' = "keys_rejected" /\ UNCHANGED server_key
          ELSE pc' = "keys_expanded" /\ server_key' = out.key
    /\ UNCHANGED <<seeded_server_key, server_key_prev, last_op>>

\* the expanded key is wrapped with its Shoup companions
KeysShoup ==
    /\ UNCHANGED notKeysVars
    /\ pc = "keys_expanded"
    /\ server_key' = ShoupServerKeyEvaluationDomainFrom(server_key)
    /\ server_key_prev' = server_key
    /\ last_op' = [op |-> "to_shoup"]
    /\ pc' = "keys_shoup"
    /\ UNCHANGED seeded_server_key

\* a non-interactive server key in evaluation domain that holds the keys of
\* one or more users is wrapped with its Shoup companions
KeysShoupGiven ==
    /\ UNCHANGED notKeysVars
    /\ pc = "keys_expanded"
    /\ seeded_server_key.kind = "non_interactive"
    /\ \E users \in 1..MaxUsers :
        LET value == [server_key EXCEPT !.ui_to_s_ksks =
                         [j \in 0..(users - 1) |->
                             Fill(seeded_server_key.seed + 7 + j, 2 * D, RingSize, Q)]]
        IN /\ server_key' = ShoupServerKeyEvaluationDomainFrom(value)
           /\ server_key_prev' = value
    /\ last_op' = [op |-> "to_shoup"]
    /\ pc' = "keys_shoup_given"
    /\ UNCHANGED seeded_server_key

\* galois_key_for_auto(k) on the plain or on the Shoup-wrapped server key
KeysGaloisKeyForAuto ==
    /\ UNCHANGED notKeysVars
    /\ pc \in {"keys_expanded", "keys_shoup"}
    /\ \E k \in 0..3 :
        LET out == galois_key_for_auto(server_key, k)
        IN last_op' = [op |-> "galois_key_for_auto", k |-> k, failed |-> out.panic,
                       key |-> IF out.panic THEN Null ELSE out.key]
    /\ UNCHANGED <<pc, seeded_server_key, server_key, server_key_prev>>

\* rgsw_ct_lwe_si(si) on the plain or on the Shoup-wrapped server key
KeysRgswCtLweSi ==
    /\ UNCHANGED notKeysVars
    /\ pc \in {"keys_expanded", "keys_shoup", "keys_shoup_given"}
    /\ \E si \in 0..2 :
        LET out == rgsw_ct_lwe_si(server_key, si)
        IN last_op' = [op |-> "rgsw_ct_lwe_si", si |-> si, failed |-> out.panic,
                       ct |-> IF out.panic THEN Null ELSE out.ct]
    /\ UNCHANGED <<pc, seeded_server_key, server_key, server_key_prev>>

NextKeys == KeysReceive \/ KeysExpand \/ KeysShoup \/ KeysShoupGiven \/ KeysGaloisKeyForAuto
            \/ KeysRgswCtLweSi

SpecKeys == InitKeys /\ [][NextKeys]_vars

\* the expander has run on the key that arrived
KeysExpanderRan == pc \in {"keys_expanded", "keys_rejected", "keys_shoup"}

\* the server key the expander returned, without its Shoup companions
PlainServerKey == IF pc = "keys_shoup" THEN server_key_prev ELSE server_key

\* C15, as the specification states it: a non-interactive seeded server key
\* with U >= 1 users whose key order is a permutation of 0..U-1 expands, and
\* the expansion yields exactly U user-to-ideal key-switching keys, the j-th
\* a 2d x N matrix in evaluation domain whose a-rows are drawn from the seed
\* of user j and whose b-rows are those of ui_to_s_ksks[ui_to_s_ksks_key_order[j]]
C15_Original ==
    (/\ KeysExpanderRan
     /\ seeded_server_key.kind = "non_interactive"
     /\ MatchesParameters(seeded_server_key)
     /\ \A k \in DOMAIN seeded_server_key.parameters.auto_element_dlogs :
           seeded_server_key.parameters.auto_element_dlogs[k]
               \in DOMAIN seeded_server_key.auto_keys)
    => /\ pc # "keys_rejected"
       /\ LET value == seeded_server_key
              users == Len0(value.ui_to_s_ksks_key_order)
              d == value.parameters.non_interactive_ui_to_s_key_switch_decomposition_count
              ksks == PlainServerKey.ui_to_s_ksks
          IN /\ Len0(ksks) = users
             /\ \A j \in 0..(users - 1) :
                   /\ dimension(ksks[j]) = <<2 * d, RingSize>>
                   /\ \A r \in 0..(d - 1) :
                         /\ ksks[j][r] =
                               NttForward(UniformRow(
                                   Advance(NewWithSeed(NonInteractiveMultiPartyCrs(value.seed)
                                               .ui_to_s_ks_seed_for_user_i[j]),
                                           r * RingSize), Q, RingSize))
                         /\ ksks[j][d + r] =
                               NttForward(value.ui_to_s_ksks[value.ui_to_s_ksks_key_order[j]][r])

\* an expander has returned a server key
KeysExpanded == pc \in {"keys_expanded", "keys_shoup"}

\* the CSPRNG the expander of a seeded server key draws the a-values of the
\* LWE-KSK from, at the first of them
LweKskPrng(value) ==
    IF value.kind = "single"
    THEN Advance(NewWithSeed(value.seed),
                 SinglePartyDrawLayout(value.parameters, Len0(value.rgsw_cts)).lwe)
    ELSE IF value.kind = "multi"
    THEN Advance(NewWithSeed(value.seed),
                 MultiPartyDrawLayout(value.parameters, Len0(value.rgsw_cts)).lwe)
    ELSE NewWithSeed(NonInteractiveMultiPartyCrs(value.seed).lwe_ksk_cts_seed)

\* row i of the expanded LWE-KSK holds the i-th stored b in column 0 and the
\* i-th lwe_n drawn values in columns 1..lwe_n
LweKskRowFilled(i) ==
    LET parameters == seeded_server_key.parameters
    IN /\ server_key.lwe_ksk[i][0] = seeded_server_key.lwe_ksk[i]
       /\ \A col \in 1..parameters.lwe_n :
             server_key.lwe_ksk[i][col] =
                 UniformRow(Advance(LweKskPrng(seeded_server_key), i * parameters.lwe_n),
                            parameters.lwe_q, parameters.lwe_n)[col - 1]

\* C16, as the specification states it: in every expanded server key the
\* LWE-KSK has n_lwe * d rows of n_lwe + 1 columns, with the stored b of the
\* row in column 0 and n_lwe drawn values after it
C16_Original ==
    KeysExpanded =>
        LET parameters == seeded_server_key.parameters
        IN /\ dimension(server_key.lwe_ksk)
                 = <<parameters.lwe_n * parameters.lwe_decomposition_count,
                     parameters.lwe_n + 1>>
           /\ \A i \in 0..(parameters.lwe_n * parameters.lwe_decomposition_count - 1) :
                 i < Len0(seeded_server_key.lwe_ksk) => LweKskRowFilled(i)

\* C16: in every expanded server key, plain or Shoup-wrapped, the LWE-KSK
\* has rlwe_n * d rows of n_lwe + 1 columns; when the seeded key stores
\* exactly rlwe_n * d values b, every row holds n_lwe drawn values in columns
\* 1..n_lwe and row i holds the i-th stored b in column 0, so that every
\* stored b appears in exactly one row, in the original order
C16_LweKskLayout ==
    KeysExpanded =>
        LET parameters == seeded_server_key.parameters
            rows == parameters.rlwe_n * parameters.lwe_decomposition_count
        IN /\ dimension(server_key.lwe_ksk) = <<rows, parameters.lwe_n + 1>>
           /\ Len0(seeded_server_key.lwe_ksk) = rows =>
                 \A i \in 0..(rows - 1) : LweKskRowFilled(i)

\* an interactive multi-party key whose stored b are not all alike has been
\* expanded, and its LWE-KSK has more rows than n_lwe * d
C16_Witness ==
    /\ pc = "keys_expanded"
    /\ seeded_server_key.kind = "multi"
    /\ MatchesParameters(seeded_server_key)
    /\ Len0(server_key.lwe_ksk) = RingSize * LweD
    /\ RingSize * LweD > LweN * LweD
    /\ \A i \in 0..(RingSize * LweD - 1) : LweKskRowFilled(i)
    /\ \E i, j \in 0..(RingSize * LweD - 1) :
          seeded_server_key.lwe_ksk[i] # seeded_server_key.lwe_ksk[j]

\* the auto element dlogs the parameters of the key that arrived ask for
RequiredDlogs ==
    {seeded_server_key.parameters.auto_element_dlogs[j] :
        j \in DOMAIN seeded_server_key.parameters.auto_element_dlogs}

\* C17: after a successful expansion the indices of the auto keys of the
\* server key, plain or Shoup-wrapped, are exactly the auto element dlogs of
\* the parameters: keys stored under other indices are not carried over, and
\* the expansion fails when a required key is absent; galois_key_for_auto(k)
\* returns the key of index k for every k of that set and fails for every
\* other k
C17_AutoKeyIndices ==
    /\ KeysExpanded => DOMAIN server_key.galois_keys = RequiredDlogs
    /\ (KeysExpanderRan /\ ~(RequiredDlogs \subseteq DOMAIN seeded_server_key.auto_keys))
          => pc = "keys_rejected"
    /\ last_op.op = "galois_key_for_auto" =>
          /\ last_op.failed <=> last_op.k \notin RequiredDlogs
          /\ ~last_op.failed => last_op.key = server_key.galois_keys[last_op.k]

\* a key that stores an auto key under an index its parameters do not ask
\* for has been expanded and Shoup-wrapped, a lookup of that index has
\* failed, and the required keys are there
C17_Witness ==
    /\ pc = "keys_shoup"
    /\ 3 \in DOMAIN seeded_server_key.auto_keys
    /\ 3 \notin RequiredDlogs
    /\ Cardinality(RequiredDlogs) = 3
    /\ DOMAIN server_key.galois_keys = RequiredDlogs
    /\ last_op.op = "galois_key_for_auto"
    /\ last_op.k = 3
    /\ last_op.failed

C19_Original ==
    (/\ last_op.op = "galois_auto"
     /\ ~(/\ last_op.scratch = <<D + 2, RingSize>>
          /\ last_op.operand = <<2 * D, RingSize>>))
    => /\ last_op.failed
       /\ rlwe_in_ct = ct_before

\* C20, as the specification states it: every expander, single-party,
\* interactive multi-party and non-interactive, rejects a seeded key whose
\* LWE-KSK length, auto key dimensions or RGSW dimensions are not those of
\* its parameters, so that no expander returns a key built from such a
\* component
C20_Original ==
    (KeysExpanderRan /\ ~MatchesParameters(seeded_server_key)) => pc = "keys_rejected"

\* a server key in evaluation domain has been turned into its Shoup form
KeysWrapped == pc \in {"keys_shoup", "keys_shoup_given"}

\* the companion ToShoup gives a matrix
ShoupOf(matrix, q) ==
    [r \in DOMAIN matrix |-> [i \in DOMAIN matrix[r] |-> (matrix[r][i] * 2^ShoupWidth) \div q]]

\* a vector or map of pairs wraps a vector or map of matrices, index by
\* index: the first component is the matrix itself, the second its companion
WrapsEach(pairs, matrices) ==
    /\ DOMAIN pairs = DOMAIN matrices
    /\ \A i \in DOMAIN matrices :
          /\ pairs[i][1] = matrices[i]
          /\ pairs[i][2] = ShoupOf(matrices[i], Q)

\* C21: the conversion of a server key in evaluation domain to its Shoup
\* form wraps every RGSW ciphertext, every auto key and every user-to-ideal
\* key-switching key in a (normal, shoup) pair whose normal component is the
\* matrix as it was; the auto keys keep their indices and the RGSW
\* ciphertexts their order; the LWE-KSK is passed on as it was, unwrapped
C21_ShoupWraps ==
    KeysWrapped =>
        /\ WrapsEach(server_key.rgsw_cts, server_key_prev.rgsw_cts)
        /\ WrapsEach(server_key.galois_keys, server_key_prev.galois_keys)
        /\ "ui_to_s_ksks" \in DOMAIN server_key_prev =>
              /\ "ui_to_s_ksks" \in DOMAIN server_key
              /\ WrapsEach(server_key.ui_to_s_ksks, server_key_prev.ui_to_s_ksks)
        /\ server_key.lwe_ksk = server_key_prev.lwe_ksk

\* a non-interactive server key with two RGSW ciphertexts that differ, three
\* auto keys and the keys of two users that differ has been wrapped
C21_Witness ==
    /\ pc = "keys_shoup_given"
    /\ Len0(server_key_prev.ui_to_s_ksks) = 2
    /\ server_key_prev.ui_to_s_ksks[0] # server_key_prev.ui_to_s_ksks[1]
    /\ server_key.ui_to_s_ksks[1][1] = server_key_prev.ui_to_s_ksks[1]
    /\ Len0(server_key_prev.rgsw_cts) = 2
    /\ server_key_prev.rgsw_cts[0] # server_key_prev.rgsw_cts[1]
    /\ Cardinality(DOMAIN server_key.galois_keys) = 3
    /\ server_key.lwe_ksk = server_key_prev.lwe_ksk
    /\ server_key.rgsw_cts[0][2] # server_key.rgsw_cts[0][1]

\* ------------------------------------------------ automorphism table scenario

\* the ring sizes tried: powers of two
RingSizes == {2, 4, 8}

InitMap ==
    /\ pc = "map_start"
    /\ s = Null
    /\ rng = Null
    /\ m0 = Null
    /\ m1 = Null
    /\ seeded_rlwe_in_ct = Null
    /\ rlwe_in_ct = Null
    /\ encoded_m_back = Null
    /\ seeded_pk = Null
    /\ pk = Null
    /\ noise = [mode |-> "none"]
    /\ rgsw_ct = Null
    /\ scratch_space = Null
    /\ ct_before = Null
    /\ auto_k \in (-MaxK)..MaxK
    /\ auto_key = Null
    /\ auto_map = Null
    /\ rgsw_carrym = Null
    /\ seeded_server_key = Null
    /\ seeded_key_sent = Null
    /\ server_key = Null
    /\ server_key_prev = Null
    /\ main_prng = NewWithSeed(0)
    /\ draws = Null
    /\ seeded_ct = Null
    /\ gen_out = Null
    /\ expanded_ct = Null
    /\ shares = Null
    /\ agg_seeded_pk = Null
    /\ agg_pk = Null
    /\ \E ring_size \in RingSizes : last_op = [op |-> "none", ring_size |-> ring_size]

\* generate_auto_map(ring_size, k): the table, or the panic of its assert
MapGenerate ==
    /\ UNCHANGED notMapVars
    /\ pc = "map_start"
    /\ auto_map' = generate_auto_map(last_op.ring_size, auto_k)
    /\ pc' = "map_done"
    /\ last_op' = [last_op EXCEPT !.op = "generate_auto_map"]
    /\ UNCHANGED auto_k

NextMap == MapGenerate

SpecMap == InitMap /\ [][NextMap]_vars

\* C22: for every power-of-two N and every odd k, positive, negative or of
\* magnitude above 2N, generate_auto_map(N, k) returns two arrays of length N
\* with idx[i] = (i * k mod 2N) mod N and sign[i] true iff i * k mod 2N < N;
\* idx is a bijection on 0..N-1; X^i goes to sign[i] * X^idx[i] under
\* X -> X^k modulo X^N + 1, that is idx[i] = i * k mod N with a minus sign
\* iff floor(i * k / N) is odd; an even k is rejected
C22_AutoMapTable ==
    pc = "map_done" =>
        LET N == last_op.ring_size
            k == auto_k
        IN IF k % 2 = 0 THEN auto_map.panic
           ELSE /\ ~auto_map.panic
                /\ DOMAIN auto_map.index = 0..(N - 1)
                /\ DOMAIN auto_map.sign = 0..(N - 1)
                /\ \A i \in 0..(N - 1) :
                      /\ auto_map.index[i] = ((i * k) % (2 * N)) % N
                      /\ auto_map.sign[i] <=> ((i * k) % (2 * N)) < N
                      /\ auto_map.index[i] = (i * k) % N
                      /\ auto_map.sign[i] <=> ((i * k) \div N) % 2 = 0
                /\ \A t \in 0..(N - 1) : \E i \in 0..(N - 1) : auto_map.index[i] = t
                /\ \A i, j \in 0..(N - 1) :
                      auto_map.index[i] = auto_map.index[j] => i = j

\* the table for N = 8 and k = -17, a negative k of magnitude above 2N: it
\* is that of k = -1, with every index but 0 negated
C22_Witness ==
    /\ pc = "map_done"
    /\ last_op.ring_size = 8
    /\ auto_k = -17
    /\ ~auto_map.panic
    /\ auto_map.index = [i \in 0..7 |-> (8 - i) % 8]
    /\ auto_map.sign = [i \in 0..7 |-> i = 0]

\* the sum over the digits j = skip..to of NTT(dec_j(x)) * rgsw[block + j]
RECURSIVE DigitSum(_, _, _, _, _)
DigitSum(x, rgsw, block, skip, to) ==
    IF to < skip THEN ZeroRow
    ELSE elwise_add(DigitSum(x, rgsw, block, skip, to - 1),
                    elwise_mul(NttForward(decompose_r(x, Zeros(D))[to]), rgsw[block + to]))

C24_TrivialSkip ==
    (last_op.op = "rlwe_by_rgsw" /\ ~last_op.failed /\ ct_before.is_trivial) =>
        LET b == ct_before.data[1]
            rgsw == rgsw_ct.data
        IN /\ rlwe_in_ct.data[0] = NttBackward(DigitSum(b, rgsw, 2 * D, 0, D - 1))
           /\ rlwe_in_ct.data[1] = NttBackward(DigitSum(b, rgsw, 3 * D, 0, D - 1))
           /\ (ct_before.data[0] = ZeroRow /\ decompose(0) = [j \in 0..(D - 1) |-> 0]) =>
                 rlwe_in_ct = rlwe_by_rgsw(RlweCiphertextFromRaw(ct_before.data, FALSE),
                                           rgsw, ZerosOf(D + 2, RingSize)).rlwe_in

\* rlwe_by_rgsw has run on a trivial ciphertext (0, b) with b not zero: its
\* output has an a-row that is not zero and is the output for the same rows
\* with the flag cleared
C24_Witness ==
    /\ last_op.op = "rlwe_by_rgsw"
    /\ ~last_op.failed
    /\ ct_before.is_trivial
    /\ ct_before.data[0] = ZeroRow
    /\ ct_before.data[1] # ZeroRow
    /\ decompose(0) = [j \in 0..(D - 1) |-> 0]
    /\ rlwe_in_ct.data[0] # ZeroRow
    /\ rlwe_in_ct = rlwe_by_rgsw(RlweCiphertextFromRaw(ct_before.data, FALSE), rgsw_ct.data,
                                 ZerosOf(D + 2, RingSize)).rlwe_in

\* C25: galois_auto on a ciphertext flagged trivial leaves the a-row as it
\* was and the flag set, reads no row of the auto key, and makes the b-row
\* exactly the (index, sign) permutation of the old one:
\* new_b[index[i]] = b[i] where sign[i], and -b[i] mod q where not
C25_TrivialAuto ==
    (last_op.op = "galois_auto" /\ ~last_op.failed /\ ct_before.is_trivial) =>
        /\ rlwe_in_ct.data[0] = ct_before.data[0]
        /\ rlwe_in_ct.is_trivial
        /\ \A i \in Idx :
              rlwe_in_ct.data[1][auto_map.index[i]] =
                  IF auto_map.sign[i] THEN ct_before.data[1][i]
                  ELSE (Q - ct_before.data[1][i]) % Q
        /\ \A rows \in 0..(2 * D) :
              rlwe_in_ct = galois_auto(ct_before, ZerosOf(rows, RingSize),
                                       ZerosOf(D + 2, RingSize), auto_map.index,
                                       auto_map.sign).rlwe_in

\* galois_auto has run on a ciphertext flagged trivial whose a-row is not
\* zero, with a key of fewer than d rows: the b-row has moved, one entry
\* negated
C25_Witness ==
    /\ last_op.op = "galois_auto"
    /\ ~last_op.failed
    /\ last_op.operand[1] < D
    /\ ct_before.is_trivial
    /\ ct_before.data[0] # ZeroRow
    /\ rlwe_in_ct.data[1] # ct_before.data[1]
    /\ \E i \in Idx : /\ ~auto_map.sign[i]
                      /\ ct_before.data[1][i] # 0
                      /\ rlwe_in_ct.data[1][auto_map.index[i]] = Q - ct_before.data[1][i]

\* the CSPRNG the expander of a seeded server key draws the a-rows of the
\* auto keys from, at the first of them
AutoKeyPrng(value) ==
    IF value.kind \in {"single", "multi"}
    THEN Advance(NewWithSeed(value.seed),
                 SinglePartyDrawLayout(value.parameters, Len0(value.rgsw_cts)).auto)
    ELSE NewWithSeed(NonInteractiveMultiPartyCrs(value.seed).auto_keys_cts_seed)

\* C26, as the specification states it: in the expanded non-interactive
\* server key, as in the single-party and the interactive ones, every auto
\* key is a 2 d_auto x N matrix in evaluation domain, the NTT of the d_auto
\* a-rows drawn from the auto CSPRNG above the NTT of the d_auto stored
\* b-rows, so that every stored b-row is present
C26_Original ==
    KeysExpanded =>
        LET parameters == seeded_server_key.parameters
            d_auto == parameters.auto_decomposition_count
            ring_size == parameters.rlwe_n
        IN \A el \in RequiredDlogs :
              LET key == PlainServerKey.galois_keys[el]
                  at == DlogPosition(parameters.auto_element_dlogs, el)
              IN /\ dimension(key) = <<2 * d_auto, ring_size>>
                 /\ \A r \in 0..(d_auto - 1) :
                       /\ key[r] = NttForward(UniformRow(
                                       Advance(AutoKeyPrng(seeded_server_key),
                                               (at * d_auto + r) * ring_size),
                                       parameters.rlwe_q, ring_size))
                       /\ key[d_auto + r] = NttForward(seeded_server_key.auto_keys[el][r])

\* a - b, entry by entry, mod q
RowMinus(a, b) == elwise_add(a, elwise_neg(b))

\* C27: secret_key_encrypt_rgsw writes a 3d x N matrix such that for every
\* j < d, rows j and d+j satisfy row[d+j] - row[j] * s = e_j - beta_j * s * m,
\* the a of row j being drawn from the non-seeded RNG, and
\* row 2d+j = a'_j * s + e'_j + beta_j * m, where a'_j is the j-th of exactly
\* d rows drawn from the seeded RNG; the expansion with the same seed has 4d
\* rows, with a'_j at row 2d+j and that b-row at row 3d+j (both sent to
\* evaluation domain)
C27_RgswRows ==
    (pc \in {"seed_generated", "seed_expanded"} /\ gen_out.kind = "rgsw") =>
        LET sq == TryConvertFrom(s)
            row == seeded_ct.data
            seeded_a(j) == UniformRow(Advance(NewWithSeed(seeded_ct.seed), j * RingSize),
                                      Q, RingSize)
        IN /\ dimension(row) = <<3 * D, RingSize>>
           /\ gen_out.p_rng = Advance(NewWithSeed(seeded_ct.seed), D * RingSize)
           /\ \A j \in 0..(D - 1) :
                 LET beta_m == elwise_scalar_mul(gen_out.m, gadget_vector[j])
                 IN /\ RowMinus(row[j], beta_m)
                          = UniformRow(Advance(gen_out.rng, 2 * j * RingSize), Q, RingSize)
                    /\ RowMinus(row[D + j], NegacyclicMul(row[j], sq))
                          = RowMinus(gen_out.e_nsm[j], NegacyclicMul(sq, beta_m))
                    /\ row[2 * D + j]
                          = elwise_add(elwise_add(NegacyclicMul(seeded_a(j), sq),
                                                  gen_out.e[j]),
                                       beta_m)
                    /\ pc = "seed_expanded" =>
                          /\ Len0(expanded_ct.data) = 4 * D
                          /\ NttBackward(expanded_ct.data[2 * D + j]) = seeded_a(j)
                          /\ NttBackward(expanded_ct.data[3 * D + j]) = row[2 * D + j]

\* a seeded RGSW ciphertext of a message that is not zero, made under a
\* secret that is not zero with a seed that is not that of the non-seeded
\* RNG, has been expanded; its errors are not zero and s * m is not zero
C27_Witness ==
    /\ pc = "seed_expanded"
    /\ gen_out.kind = "rgsw"
    /\ gen_out.rng.seed # seeded_ct.seed
    /\ NegacyclicMul(TryConvertFrom(s), gen_out.m) # ZeroRow
    /\ gen_out.e_nsm[0] # ZeroRow
    /\ gen_out.e[1] # ZeroRow
    /\ gen_out.a_nsm[1] # gen_out.a[1]
    /\ Len0(expanded_ct.data) = 4 * D

\* the expansion of the i-th RGSW ciphertext of a seeded server key, in
\* evaluation domain: for a single-party key the a-rows of RLWE'(m) are the
\* i-th group of rlrg_b_decomp rows the main CSPRNG gives after those of the
\* auto keys, between the rows of RLWE'(-sm) and the b-rows of RLWE'(m); for
\* the two multi-party keys the rows as they are stored
ExpansionOfRgswCt(value, i) ==
    LET parameters == value.parameters
        d_a == parameters.rlwe_rgsw_decomposition_count[1]
        d_b == parameters.rlwe_rgsw_decomposition_count[2]
        ring_size == parameters.rlwe_n
        stored == value.rgsw_cts[i]
        from == SinglePartyDrawLayout(parameters, Len0(value.rgsw_cts)).rgsw
    IN IF value.kind = "single"
       THEN [r \in 0..(2 * d_a + 2 * d_b - 1) |->
                NttForward(IF r < 2 * d_a THEN stored[r]
                           ELSE IF r < 2 * d_a + d_b
                           THEN UniformRow(Advance(NewWithSeed(value.seed),
                                                   from + (i * d_b + r - 2 * d_a) * ring_size),
                                           parameters.rlwe_q, ring_size)
                           ELSE stored[r - d_b])]
       ELSE [r \in DOMAIN stored |-> NttForward(stored[r])]

\* the expander has returned a server key, wrapped or not since
KeysServed == pc \in {"keys_expanded", "keys_shoup", "keys_shoup_given"}

\* C28: the i-th RGSW ciphertext of an expanded server key, and the normal
\* component of the i-th pair of its Shoup-wrapped form, as returned by
\* rgsw_ct_lwe_si(i), is the expansion of the i-th RGSW ciphertext of the
\* seeded key: the three expanders and the two Shoup conversions keep the
\* number and the order of the RGSW ciphertexts
C28_RgswOrder ==
    KeysServed =>
        LET wrapped == pc # "keys_expanded"
            stored == seeded_server_key.rgsw_cts
        IN /\ DOMAIN server_key.rgsw_cts = DOMAIN stored
           /\ \A i \in DOMAIN stored :
                 LET out == rgsw_ct_lwe_si(server_key, i)
                 IN /\ ~out.panic
                    /\ (IF wrapped THEN out.ct[1] ELSE out.ct)
                          = ExpansionOfRgswCt(seeded_server_key, i)
                    /\ wrapped => out.ct = NormalAndShoup(ExpansionOfRgswCt(seeded_server_key, i),
                                                          seeded_server_key.parameters.rlwe_q)
           /\ last_op.op = "rgsw_ct_lwe_si" =>
                 /\ last_op.failed <=> last_op.si \notin DOMAIN stored
                 /\ ~last_op.failed => last_op.ct = server_key.rgsw_cts[last_op.si]

\* a single-party key of two RGSW ciphertexts whose expansions differ has
\* been expanded and Shoup-wrapped, and rgsw_ct_lwe_si(1) has returned the
\* pair of the expansion of the second
C28_Witness ==
    /\ pc = "keys_shoup"
    /\ seeded_server_key.kind = "single"
    /\ Len0(seeded_server_key.rgsw_cts) = 2
    /\ ExpansionOfRgswCt(seeded_server_key, 0) # ExpansionOfRgswCt(seeded_server_key, 1)
    /\ last_op.op = "rgsw_ct_lwe_si"
    /\ last_op.si = 1
    /\ ~last_op.failed
    /\ last_op.ct[1] = ExpansionOfRgswCt(seeded_server_key, 1)

\* C29, as the specification implies it: in galois_key_gen every coefficient
\* of the polynomial -s(X^k) handed to rlwe_ksk_gen is a canonical residue
\* in [0, q), for every ternary secret s, those with zero coefficients
\* included, and every odd k
C29_Original ==
    (pc \in {"seed_generated", "seed_expanded"} /\ gen_out.kind = "auto") =>
        \A i \in Idx : gen_out.neg_s_auto[i] \in 0..(Q - 1)

\* the call the last operation made, with a scratch matrix of the same shape
\* that holds the values of held
LastCallWith(held) ==
    LET scratch == ScratchWith(held, last_op.scratch[1], last_op.scratch[2])
    IN CASE last_op.op = "rlwe_by_rgsw" ->
                rlwe_by_rgsw(ct_before, Resized(rgsw_ct.data, last_op.operand[1]), scratch)
         [] last_op.op = "less1_rlwe_by_rgsw" ->
                less1_rlwe_by_rgsw(ct_before, Resized(rgsw_ct.data, last_op.operand[1]),
                                   scratch, last_op.skip0, last_op.skip1)
         [] last_op.op = "galois_auto" ->
                galois_auto(ct_before, Resized(auto_key.data, last_op.operand[1]), scratch,
                            auto_map.index, auto_map.sign)
         [] last_op.op = "rgsw_by_rgsw_inplace" ->
                rgsw_by_rgsw_inplace(ct_before, Resized(rgsw_ct.data, last_op.operand[1]),
                                     scratch)

\* C30: the results of rlwe_by_rgsw, less1_rlwe_by_rgsw, rgsw_by_rgsw_inplace
\* and galois_auto (with a table of generate_auto_map) do not depend on what
\* the scratch matrix held on entry: the call on the same operands with a
\* scratch matrix of the same shape and other contents fails or returns as
\* this one did, and writes the same output
C30_ScratchIndependent ==
    last_op.op \in {"rlwe_by_rgsw", "less1_rlwe_by_rgsw", "galois_auto",
                    "rgsw_by_rgsw_inplace"} =>
        \A held \in ScratchFills :
            LET out == LastCallWith(held)
            IN /\ out.panic = last_op.failed
               /\ IF last_op.op = "rgsw_by_rgsw_inplace" THEN out.rgsw_0 = rgsw_carrym
                  ELSE out.rlwe_in = rlwe_in_ct

\* rlwe_by_rgsw has returned on a fresh encryption with a scratch matrix
\* that held values other than zero in its two last rows, and its output is
\* the one of the call with a zeroed scratch matrix
C30_Witness ==
    /\ last_op.op = "rlwe_by_rgsw"
    /\ ~last_op.failed
    /\ last_op.held
    /\ ScratchWith(7, D + 2, RingSize)[D] # ZeroRow
    /\ ScratchWith(7, D + 2, RingSize)[D + 1] # ZeroRow
    /\ ~ct_before.is_trivial
    /\ rlwe_in_ct = rlwe_by_rgsw(ct_before, rgsw_ct.data, ZerosOf(D + 2, RingSize)).rlwe_in
    /\ rlwe_in_ct.data # ct_before.data

====
